---- MODULE Spec2Model ----
(***************************************************************************)
(* A model of glitter's scene engine (src/layers.ts, sceneDoc) and of the  *)
(* editor's event handlers (src/index.ts, src/commandExecutor.ts).         *)
(*                                                                         *)
(* JavaScript objects that the code mutates in place live in `heap`: a     *)
(* SceneDoc object graph is one heap cell, named by a reference.  A deep   *)
(* copy (structuredClone, JSON round trip) allocates a new cell; handing   *)
(* an object on without copying hands on its reference.  Cells that no     *)
(* variable refers to any more are collected.                              *)
(***************************************************************************)
EXTENDS Integers, Sequences, FiniteSets, TLC

VARIABLES
    heap,       \* reference -> SceneDoc object
    scene,      \* the Scene: doc (a reference), layers, activeLayerId, widthCells, heightCells
    held,       \* the SceneDoc object the caller of the Scene API holds (toDoc result / fromDoc argument)
    ed,         \* the editor's module-level variables (index.ts), a record
    hist,       \* history: for each entry of the undo stack, the document and active layer
                \* the scene had when the handler that recorded the entry began
    last,       \* the call or event handled last and whether it returned normally
    caller      \* what the caller of the library holds besides held: the documents of a
                \* conversion under way and the rect object it passed last

vars == <<heap, scene, held, ed, hist, last, caller>>

(***************************************************************************)
(* Values                                                                  *)
(***************************************************************************)
NULL == "<null>"
UNDEFINED == "<undefined>"
NoRef == 0

\* a component's meta field: the property holds undefined, is absent, or is an object
\* (an object is the set of its <<key, value>> pairs)
MetaUndefined == [tag |-> "undefined", obj |-> {}]
MetaAbsent == [tag |-> "absent", obj |-> {}]
MetaObject(kv) == [tag |-> "object", obj |-> kv]
\* values a JSON file can put where a meta object belongs: null, an array, a
\* falsy primitive (0, "", false), a truthy primitive (a non-empty string)
MetaNull == [tag |-> "null", obj |-> {}]
MetaArray == [tag |-> "array", obj |-> {}]
MetaFalsy == [tag |-> "falsy", obj |-> {}]
MetaText == [tag |-> "text", obj |-> {}]

\* Numbers are integers, the numbers n + 1/2, and NaN.  NaN is named by an
\* integer no computation of the model reaches, and n + 1/2 by an integer
\* beyond the ones a computation reaches.  Arithmetic on NaN gives NaN and
\* every comparison with NaN is false.
NaN == -1000000
Half(n) == 2000000 + n
IsHalf(v) == v > 1000000
\* twice the number v names, and the number that t is twice of
Twice(v) == IF IsHalf(v) THEN 2 * (v - 2000000) + 1 ELSE 2 * v
FromTwice(t) == IF t % 2 = 0 THEN t \div 2 ELSE Half((t - 1) \div 2)
JsAdd(a, b) == IF a = NaN \/ b = NaN THEN NaN ELSE FromTwice(Twice(a) + Twice(b))
JsLt(a, b) == a # NaN /\ b # NaN /\ Twice(a) < Twice(b)
JsGt(a, b) == a # NaN /\ b # NaN /\ Twice(a) > Twice(b)
\* Math.floor(v / d) and v % d (which has the sign of v) for an integer d > 0
JsFloorDiv(v, d) == IF v = NaN THEN NaN ELSE Twice(v) \div (2 * d)
JsMod(v, d) ==
    IF v = NaN THEN NaN
    ELSE IF Twice(v) >= 0 THEN FromTwice(Twice(v) % (2 * d))
    ELSE FromTwice(0 - ((0 - Twice(v)) % (2 * d)))
IsInteger(v) == v # NaN /\ ~IsHalf(v)

Rect(x, y, w, h) == [x |-> x, y |-> y, w |-> w, h |-> h]

Range(seq) == {seq[i] : i \in DOMAIN seq}

\* the ids of a list of layers or components, in order
Ids(seq) == [i \in DOMAIN seq |-> seq[i].id]

Distinct(seq) == \A i, j \in DOMAIN seq : i # j => seq[i] # seq[j]

(***************************************************************************)
(* Bounds of the model                                                     *)
(***************************************************************************)
\* AddBox is not attempted on a document that holds this many components
MaxComponents == 2
\* the canvas of the Scene the API specification starts from
CanvasWidthCells == 2
CanvasHeightCells == 1

(***************************************************************************)
(* sceneDoc: validateSceneDoc, validateRect                                *)
(***************************************************************************)
IsFinite(n) == n \in Int /\ n # NaN

validateRect(rect) ==
    /\ IsFinite(rect.x) /\ IsFinite(rect.y) /\ IsFinite(rect.w) /\ IsFinite(rect.h)
    /\ ~(JsLt(rect.w, 1) \/ JsLt(rect.h, 1))

\* validateSceneDoc without the test of state.nextId
validateSceneDoc_NoNextIdCheck(doc) ==
    /\ doc.schemaVersion = 1
    /\ doc.units = "px"
    /\ \A i \in DOMAIN doc.layers :
          /\ doc.layers[i].id = doc.layers[i].name
          /\ \A j \in 1..(i - 1) : doc.layers[j].id # doc.layers[i].id
    /\ \A i \in DOMAIN doc.components :
          /\ \A j \in 1..(i - 1) : doc.components[j].id # doc.components[i].id
          /\ doc.components[i].type \in {"box", "image"}
          /\ doc.components[i].layerId \in Range(Ids(doc.layers))
          /\ validateRect(doc.components[i].rect)

\* TRUE when validateSceneDoc returns, FALSE when it throws
validateSceneDoc(doc) ==
    /\ doc.schemaVersion = 1
    /\ doc.units = "px"
    /\ \A i \in DOMAIN doc.layers :
          /\ doc.layers[i].id = doc.layers[i].name
          /\ \A j \in 1..(i - 1) : doc.layers[j].id # doc.layers[i].id
    /\ \A i \in DOMAIN doc.components :
          /\ \A j \in 1..(i - 1) : doc.components[j].id # doc.components[i].id
          /\ doc.components[i].type \in {"box", "image"}
          /\ doc.components[i].layerId \in Range(Ids(doc.layers))
          /\ validateRect(doc.components[i].rect)
    /\ IsFinite(doc.state.nextId) /\ ~JsLt(doc.state.nextId, 1)

(***************************************************************************)
(* Deep copies                                                             *)
(***************************************************************************)
\* structuredClone keeps every property, also one that holds undefined
StructuredClone(doc) == doc

\* JSON.parse(JSON.stringify(doc)) drops the properties that hold undefined
JsonClone(doc) ==
    [doc EXCEPT
        !.meta = IF @.tag = "undefined" THEN MetaAbsent ELSE @,
        !.components =
            [i \in DOMAIN @ |->
                [@[i] EXCEPT !.meta = IF @.tag = "undefined" THEN MetaAbsent ELSE @]]]

\* the smallest reference that names no cell of h
FreshRef(h) ==
    CHOOSE r \in 1..(Cardinality(DOMAIN h) + 1) :
        /\ r \notin DOMAIN h
        /\ \A q \in 1..(r - 1) : q \in DOMAIN h

\* The documents that are still referred to, in a fixed order: the scene's, the
\* held one, those of the undo stack.  Cells are renamed to the place of their
\* first occurrence in this order after every step (which cell an object
\* occupies is not observable), and the cells left out are collected.
RootSeq(s, hd, us) ==
    <<s.doc>> \o (IF hd = NoRef THEN << >> ELSE <<hd>>) \o [i \in DOMAIN us |-> us[i].doc]

NameOf(seq, r) ==
    CHOOSE i \in DOMAIN seq : seq[i] = r /\ \A j \in 1..(i - 1) : seq[j] # r

CanonHeap(h, s, hd, us) ==
    LET seq == RootSeq(s, hd, us)
    IN  [n \in {NameOf(seq, seq[i]) : i \in DOMAIN seq} |-> h[seq[n]]]

CanonScene(h, s, hd, us) == [s EXCEPT !.doc = NameOf(RootSeq(s, hd, us), @)]

CanonHeld(h, s, hd, us) == IF hd = NoRef THEN NoRef ELSE NameOf(RootSeq(s, hd, us), hd)

CanonUndo(h, s, hd, us) ==
    IF Len(us) = 0 THEN << >>
    ELSE [i \in DOMAIN us |-> [us[i] EXCEPT !.doc = NameOf(RootSeq(s, hd, us), @)]]

(***************************************************************************)
(* layers.ts: class Scene                                                  *)
(* A method is an operator from the heap and the Scene to the heap and the *)
(* Scene after the call; ok is FALSE when the method throws.               *)
(***************************************************************************)
\* sharesRect names the component whose rect property is the very object the
\* caller passed, NULL when the method stored none of its arguments
Return(h, s) == [ok |-> TRUE, heap |-> h, scene |-> s, sharesRect |-> NULL]
Throw(h, s) == [ok |-> FALSE, heap |-> h, scene |-> s, sharesRect |-> NULL]

NewDoc(widthCells, heightCells) ==
    [schemaVersion |-> 1,
     units |-> "px",
     size |-> [widthCells |-> widthCells, heightCells |-> heightCells],
     layers |-> << >>,
     components |-> << >>,
     state |-> [nextId |-> 1],
     meta |-> MetaAbsent]

\* A Uint8Array is the set of its <<index, mask>> pairs, one for every bit
\* that is set: a new or cleared buffer is the empty set, and the OR of two
\* bytes is the union of their masks.
\* the fields of new Scene(widthCells, heightCells) whose doc is the cell ref
NewScene(ref, widthCells, heightCells) ==
    [doc |-> ref,
     layers |-> << >>,
     activeLayerId |-> NULL,
     widthCells |-> widthCells,
     heightCells |-> heightCells]

RuntimeLayer(layerDoc, s) ==
    [id |-> layerDoc.id,
     name |-> layerDoc.name,
     visible |-> layerDoc.visible,
     widthCells |-> s.widthCells,
     heightCells |-> s.heightCells,
     buffer |-> {}]

widthPx(s) == s.widthCells * 2
heightPx(s) == s.heightCells * 4

\* addLayer without the test that the name is new
addLayer_NoNameCheck(h, s, name) ==
    LET layerDoc == [id |-> name, name |-> name, visible |-> TRUE]
        layer == RuntimeLayer(layerDoc, s)
    IN  Return([h EXCEPT ![s.doc].layers = Append(@, layerDoc)],
               [s EXCEPT !.layers = Append(@, layer), !.activeLayerId = layer.id])

\* addLayer leaving the active layer as it was
addLayer_NotActivated(h, s, name) ==
    IF \E i \in DOMAIN h[s.doc].layers : h[s.doc].layers[i].id = name
    THEN Throw(h, s)
    ELSE LET layerDoc == [id |-> name, name |-> name, visible |-> TRUE]
             layer == RuntimeLayer(layerDoc, s)
         IN  Return([h EXCEPT ![s.doc].layers = Append(@, layerDoc)],
                    [s EXCEPT !.layers = Append(@, layer)])

addLayer(h, s, name) ==
    IF \E i \in DOMAIN h[s.doc].layers : h[s.doc].layers[i].id = name
    THEN Throw(h, s)
    ELSE LET layerDoc == [id |-> name, name |-> name, visible |-> TRUE]
             layer == RuntimeLayer(layerDoc, s)
         IN  Return([h EXCEPT ![s.doc].layers = Append(@, layerDoc)],
                    [s EXCEPT !.layers = Append(@, layer),
                              !.activeLayerId = layer.id])

setActiveLayer(h, s, name) ==
    IF ~\E i \in DOMAIN s.layers : s.layers[i].id = name
    THEN Throw(h, s)
    ELSE Return(h, [s EXCEPT !.activeLayerId = name])

\* the index of the first element of seq with the given id, 0 when there is none
\* (findIndex's -1)
FindIndex(seq, id) ==
    IF \E i \in DOMAIN seq : seq[i].id = id
    THEN CHOOSE i \in DOMAIN seq :
            /\ seq[i].id = id
            /\ \A j \in 1..(i - 1) : seq[j].id # id
    ELSE 0

\* cycleActiveLayer that stops at the first and at the last layer
cycleActiveLayer_NoWrap(h, s, direction) ==
    LET layers == h[s.doc].layers
        n == Len(layers)
        currentIndex == FindIndex(layers, s.activeLayerId) - 1
        baseIndex == IF currentIndex = -1 THEN 0 ELSE currentIndex
        moved == baseIndex + direction
        nextIndex == IF moved < 0 THEN 0 ELSE IF moved > n - 1 THEN n - 1 ELSE moved
    IN  IF n = 0 THEN Return(h, s)
        ELSE Return(h, [s EXCEPT !.activeLayerId = layers[nextIndex + 1].id])

cycleActiveLayer(h, s, direction) ==
    LET layers == h[s.doc].layers
        n == Len(layers)
        currentIndex == FindIndex(layers, s.activeLayerId) - 1
        baseIndex == IF currentIndex = -1 THEN 0 ELSE currentIndex
        nextIndex == (baseIndex + direction + n) % n
    IN  IF n = 0 THEN Return(h, s)
        ELSE Return(h, [s EXCEPT !.activeLayerId = layers[nextIndex + 1].id])

\* toDoc handing out the live document instead of a copy
toDoc_NoCopy(h, s) == [ref |-> s.doc, heap |-> h]

toDoc(h, s) ==
    LET ref == FreshRef(h)
    IN  [ref |-> ref, heap |-> h @@ (ref :> StructuredClone(h[s.doc]))]

\* Scene.fromDoc(doc), doc being the object in cell docRef
fromDoc(h, docRef) ==
    IF ~validateSceneDoc(h[docRef])
    THEN [ok |-> FALSE, heap |-> h, scene |-> NULL]
    ELSE LET ref == FreshRef(h)
             doc == JsonClone(h[docRef])
             s0 == NewScene(ref, doc.size.widthCells, doc.size.heightCells)
             layers == [i \in DOMAIN doc.layers |-> RuntimeLayer(doc.layers[i], s0)]
         IN  [ok |-> TRUE,
              heap |-> h @@ (ref :> doc),
              scene |-> [s0 EXCEPT
                            !.layers = layers,
                            !.activeLayerId =
                                IF Len(layers) = 0 THEN NULL ELSE layers[Len(layers)].id]]

\* nextComponentId: the id it returns and the heap with state.nextId incremented
nextComponentId(h, s) ==
    [id |-> "c" \o ToString(h[s.doc].state.nextId),
     heap |-> [h EXCEPT ![s.doc].state.nextId = @ + 1]]

\* opts.layerId ?? this.activeLayerId
BoxLayerId(s, opts) ==
    IF opts.layerId \in {UNDEFINED, NULL} THEN s.activeLayerId ELSE opts.layerId

HasLayerDoc(h, s, layerId) ==
    \E i \in DOMAIN h[s.doc].layers : h[s.doc].layers[i].id = layerId

HasComponent(h, s, id) ==
    \E i \in DOMAIN h[s.doc].components : h[s.doc].components[i].id = id

\* the bounds test of addBox
OutsideCanvas(rect, s) ==
    LET maxX == JsAdd(rect.x, rect.w)
        maxY == JsAdd(rect.y, rect.h)
    IN  JsLt(rect.x, 0) \/ JsLt(rect.y, 0) \/ JsLt(rect.w, 1) \/ JsLt(rect.h, 1)
            \/ JsGt(maxX, widthPx(s)) \/ JsGt(maxY, heightPx(s))

\* the component of addBox with its rect moved to the left edge
BoxComponent_AtLeftEdge(id, layerId, opts) ==
    [id |-> id, type |-> "box", layerId |-> layerId,
     rect |-> [opts.rect EXCEPT !.x = 0], meta |-> opts.meta]

BoxComponent(id, layerId, opts) ==
    [id |-> id, type |-> "box", layerId |-> layerId, rect |-> opts.rect, meta |-> opts.meta]

\* addBox without the test that the layer is declared
addBox_NoLayerCheck(h, s, opts) ==
    LET layerId == BoxLayerId(s, opts)
        minted == nextComponentId(h, s)
        id == IF opts.id \in {UNDEFINED, NULL} THEN minted.id ELSE opts.id
        h1 == IF opts.id \in {UNDEFINED, NULL} THEN minted.heap ELSE h
    IN  IF layerId \in {NULL, UNDEFINED, ""} THEN Throw(h, s)
        ELSE IF OutsideCanvas(opts.rect, s) THEN Throw(h, s)
        ELSE IF HasComponent(h1, s, id) THEN Throw(h1, s)
        ELSE Return([h1 EXCEPT ![s.doc].components =
                        Append(@, BoxComponent(id, layerId, opts))], s)

\* addBox without the test that the id is new
addBox_NoIdCheck(h, s, opts) ==
    LET layerId == BoxLayerId(s, opts)
        minted == nextComponentId(h, s)
        id == IF opts.id \in {UNDEFINED, NULL} THEN minted.id ELSE opts.id
        h1 == IF opts.id \in {UNDEFINED, NULL} THEN minted.heap ELSE h
    IN  IF layerId \in {NULL, UNDEFINED, ""} THEN Throw(h, s)
        ELSE IF ~HasLayerDoc(h, s, layerId) THEN Throw(h, s)
        ELSE IF OutsideCanvas(opts.rect, s) THEN Throw(h, s)
        ELSE Return([h1 EXCEPT ![s.doc].components =
                        Append(@, BoxComponent(id, layerId, opts))], s)

\* the id is minted, and state.nextId incremented, before the collision test:
\* a call without opts.id that collides throws with state.nextId incremented
addBox(h, s, opts) ==
    LET layerId == BoxLayerId(s, opts)
        minted == nextComponentId(h, s)
        id == IF opts.id \in {UNDEFINED, NULL} THEN minted.id ELSE opts.id
        h1 == IF opts.id \in {UNDEFINED, NULL} THEN minted.heap ELSE h
    IN  IF layerId \in {NULL, UNDEFINED, ""} THEN Throw(h, s)
        ELSE IF ~HasLayerDoc(h, s, layerId) THEN Throw(h, s)
        ELSE IF OutsideCanvas(opts.rect, s) THEN Throw(h, s)
        ELSE IF HasComponent(h1, s, id) THEN Throw(h1, s)
        ELSE Return([h1 EXCEPT ![s.doc].components =
                        Append(@, BoxComponent(id, layerId, opts))], s)

getComponentById(h, s, id) == FindIndex(h[s.doc].components, id)

\* updateBoxRect storing the caller's rect object itself
updateBoxRect_NoCopy(h, s, id, rect) ==
    LET i == getComponentById(h, s, id)
    IN  IF i = 0 THEN Throw(h, s)
        ELSE IF h[s.doc].components[i].type # "box" THEN Throw(h, s)
        ELSE [Return([h EXCEPT ![s.doc].components[i].rect = rect], s)
                EXCEPT !.sharesRect = id]

\* comp.rect = { ...rect }: the component gets a new object with the fields of
\* the caller's
updateBoxRect(h, s, id, rect) ==
    LET i == getComponentById(h, s, id)
    IN  IF i = 0 THEN Throw(h, s)
        ELSE IF h[s.doc].components[i].type # "box" THEN Throw(h, s)
        ELSE Return([h EXCEPT ![s.doc].components[i].rect = rect], s)

(***************************************************************************)
(* layers.ts: drawing primitives and render                                *)
(***************************************************************************)
BRAILLE_DOTS == <<<<1, 8>>, <<2, 16>>, <<4, 32>>, <<64, 128>>>>

JsGe(a, b) == a # NaN /\ b # NaN /\ Twice(a) >= Twice(b)
JsMin(a, b) == IF a = NaN \/ b = NaN THEN NaN ELSE IF Twice(a) < Twice(b) THEN a ELSE b
JsMax(a, b) == IF a = NaN \/ b = NaN THEN NaN ELSE IF Twice(a) > Twice(b) THEN a ELSE b

\* What one call does to the buffer: it returns early, it throws (no row of
\* BRAILLE_DOTS at dotY), it ORs undefined into a byte, which changes nothing
\* (no entry of the row at dotX), or it sets the bit mask of the byte index.
PixelReturn == [kind |-> "return", index |-> 0, mask |-> 0]
PixelThrow == [kind |-> "throw", index |-> 0, mask |-> 0]
PixelNothing == [kind |-> "nothing", index |-> 0, mask |-> 0]

setPixelInBuffer(widthCells, heightCells, x, y) ==
    LET cellX == JsFloorDiv(x, 2)
        cellY == JsFloorDiv(y, 4)
        dotX == JsMod(x, 2)
        dotY == JsMod(y, 4)
    IN  IF JsLt(cellX, 0) \/ JsLt(cellY, 0) \/ JsGe(cellX, widthCells)
            \/ JsGe(cellY, heightCells)
        THEN PixelReturn
        ELSE IF ~IsInteger(dotY) THEN PixelThrow
        ELSE IF ~IsInteger(dotX) THEN PixelNothing
        ELSE [kind |-> "set", index |-> cellY * widthCells + cellX,
              mask |-> BRAILLE_DOTS[dotY + 1][dotX + 1]]

\* setPixel that sets no bit where the row of BRAILLE_DOTS does not exist
setPixel_Lenient(layer, x, y) ==
    LET res == setPixelInBuffer(layer.widthCells, layer.heightCells, x, y)
    IN  IF res.kind = "throw" THEN PixelNothing ELSE res

\* setPixel that counts the rows of the buffer by the height of the canvas
setPixel_IndexByHeight(layer, x, y) ==
    LET cellX == JsFloorDiv(x, 2)
        cellY == JsFloorDiv(y, 4)
        dotX == JsMod(x, 2)
        dotY == JsMod(y, 4)
    IN  IF JsLt(cellX, 0) \/ JsLt(cellY, 0) \/ JsGe(cellX, layer.widthCells)
            \/ JsGe(cellY, layer.heightCells)
        THEN PixelReturn
        ELSE IF ~IsInteger(dotY) THEN PixelThrow
        ELSE IF ~IsInteger(dotX) THEN PixelNothing
        ELSE [kind |-> "set", index |-> cellY * layer.heightCells + cellX,
              mask |-> BRAILLE_DOTS[dotY + 1][dotX + 1]]

\* setPixel on the active layer
setPixel(layer, x, y) ==
    LET cellX == JsFloorDiv(x, 2)
        cellY == JsFloorDiv(y, 4)
        dotX == JsMod(x, 2)
        dotY == JsMod(y, 4)
    IN  IF JsLt(cellX, 0) \/ JsLt(cellY, 0) \/ JsGe(cellX, layer.widthCells)
            \/ JsGe(cellY, layer.heightCells)
        THEN PixelReturn
        ELSE IF ~IsInteger(dotY) THEN PixelThrow
        ELSE IF ~IsInteger(dotX) THEN PixelNothing
        ELSE [kind |-> "set", index |-> cellY * layer.widthCells + cellX,
              mask |-> BRAILLE_DOTS[dotY + 1][dotX + 1]]

\* the number of rounds of  for (i = from; i < to; i++)
RoundsBelow(from, to) ==
    IF from = NaN \/ to = NaN \/ Twice(to) <= Twice(from) THEN 0
    ELSE (Twice(to) - Twice(from) + 1) \div 2

\* the number of rounds of  for (x = from; x <= to; x += 2)
RoundsByTwo(from, to) ==
    IF from = NaN \/ to = NaN \/ Twice(to) < Twice(from) THEN 0
    ELSE (Twice(to) - Twice(from)) \div 4 + 1

\* The calls of a drawing in the order they are made: the drawing stops at the
\* first call that throws; pixels are the bits set before that.
Drawing(calls) ==
    LET failing == {k \in DOMAIN calls : calls[k].kind = "throw"}
        failAt == IF failing = {} THEN Len(calls) + 1
                  ELSE CHOOSE k \in failing : \A q \in failing : k <= q
    IN  [threw |-> failing # {},
         pixels |-> {<<calls[k].index, calls[k].mask>> :
                        k \in {q \in 1..(failAt - 1) : calls[q].kind = "set"}}]

\* drawBox whose right edge is one column too far to the right
drawBox_RightEdgeShifted(layer, x, y, w, h) ==
    LET n == RoundsBelow(x, JsAdd(x, w))
        m == RoundsBelow(y, JsAdd(y, h))
        bottom == JsAdd(JsAdd(y, h), -1)
        right == JsAdd(x, w)
    IN  Drawing([k \in 1..(2 * n + 2 * m) |->
            IF k <= 2 * n
            THEN IF k % 2 = 1 THEN setPixel(layer, JsAdd(x, (k - 1) \div 2), y)
                 ELSE setPixel(layer, JsAdd(x, (k - 2) \div 2), bottom)
            ELSE IF k % 2 = 1 THEN setPixel(layer, x, JsAdd(y, (k - 2 * n - 1) \div 2))
                 ELSE setPixel(layer, right, JsAdd(y, (k - 2 * n - 2) \div 2))])

drawBox(layer, x, y, w, h) ==
    LET n == RoundsBelow(x, JsAdd(x, w))
        m == RoundsBelow(y, JsAdd(y, h))
        bottom == JsAdd(JsAdd(y, h), -1)
        right == JsAdd(JsAdd(x, w), -1)
    IN  Drawing([k \in 1..(2 * n + 2 * m) |->
            IF k <= 2 * n
            THEN IF k % 2 = 1 THEN setPixel(layer, JsAdd(x, (k - 1) \div 2), y)
                 ELSE setPixel(layer, JsAdd(x, (k - 2) \div 2), bottom)
            ELSE IF k % 2 = 1 THEN setPixel(layer, x, JsAdd(y, (k - 2 * n - 1) \div 2))
                 ELSE setPixel(layer, right, JsAdd(y, (k - 2 * n - 2) \div 2))])

\* clamp of layers.ts: Math.max(min, Math.min(max, n))
clampNumber(n, min, max) == JsMax(min, JsMin(max, n))

drawDashedRect(widthCells, heightCells, rect) ==
    LET maxX == widthCells * 2 - 1
        maxY == heightCells * 4 - 1
        xStart == clampNumber(rect.x, 0, maxX)
        yStart == clampNumber(rect.y, 0, maxY)
        xEnd == clampNumber(JsAdd(JsAdd(rect.x, rect.w), -1), 0, maxX)
        yEnd == clampNumber(JsAdd(JsAdd(rect.y, rect.h), -1), 0, maxY)
        n == RoundsByTwo(xStart, xEnd)
        m == RoundsByTwo(yStart, yEnd)
    IN  Drawing([k \in 1..(2 * n + 2 * m) |->
            IF k <= 2 * n
            THEN IF k % 2 = 1
                 THEN setPixelInBuffer(widthCells, heightCells,
                                       JsAdd(xStart, k - 1), yStart)
                 ELSE setPixelInBuffer(widthCells, heightCells,
                                       JsAdd(xStart, k - 2), yEnd)
            ELSE IF k % 2 = 1
                 THEN setPixelInBuffer(widthCells, heightCells,
                                       xStart, JsAdd(yStart, k - 2 * n - 1))
                 ELSE setPixelInBuffer(widthCells, heightCells,
                                       xEnd, JsAdd(yStart, k - 2 * n - 2))])

\* the argument of render: none, or an object with a rect and maybe a color
NoOverlay == [given |-> FALSE, rect |-> Rect(0, 0, 0, 0), color |-> UNDEFINED]
OverlayRect(rect, color) == [given |-> TRUE, rect |-> rect, color |-> color]

colorActive == "ESC[38;5;208m"
colorGray == "ESC[38;5;245m"
colorReset == "ESC[0m"

\* The string render returns is the sequence of its parts: a character (its
\* code), a colour escape (its text), or a line feed.
Glyph(code) == [kind |-> "char", code |-> code, text |-> ""]
ColourCode(text) == [kind |-> "escape", code |-> 0, text |-> text]
LineFeed == [kind |-> "char", code |-> 10, text |-> ""]
Appended(text) == IF text = "" THEN << >> ELSE <<ColourCode(text)>>

RECURSIVE Joined(_)
Joined(parts) == IF parts = << >> THEN << >> ELSE Head(parts) \o Joined(Tail(parts))

\* the masks of the byte at an index of a buffer, and the number they make
ByteAt(buffer, index) == {px[2] : px \in {q \in buffer : q[1] = index}}
ByteValue(masks) ==
    LET bit(mk) == IF mk \in masks THEN mk ELSE 0
    IN  bit(1) + bit(2) + bit(4) + bit(8) + bit(16) + bit(32) + bit(64) + bit(128)

\* the boxes render draws: those on a runtime layer that exists and is visible
DrawnBoxes(h, s) ==
    {i \in DOMAIN h[s.doc].components :
        /\ h[s.doc].components[i].type = "box"
        /\ FindIndex(s.layers, h[s.doc].components[i].layerId) # 0
        /\ s.layers[FindIndex(s.layers, h[s.doc].components[i].layerId)].visible}

\* the rasterizing loop of render, boxes[i] being the drawing of component i:
\* the buffers are cleared, then every box is drawn on its layer, up to the
\* first throw
RasterizedWith(h, s, boxes) ==
    LET comps == h[s.doc].components
        layerOf(i) == FindIndex(s.layers, comps[i].layerId)
        failing == {i \in DOMAIN boxes : boxes[i].threw}
        failAt == IF failing = {} THEN 0 ELSE CHOOSE i \in failing : \A q \in failing : i <= q
        reached == IF failAt = 0 THEN DOMAIN boxes ELSE {i \in DOMAIN boxes : i <= failAt}
    IN  [threw |-> failAt # 0,
         scene |-> [s EXCEPT
            !.layers = [li \in DOMAIN s.layers |->
                [s.layers[li] EXCEPT
                    !.buffer = UNION {boxes[i].pixels : i \in {q \in reached : layerOf(q) = li}}]],
            !.activeLayerId = IF failAt = 0 THEN s.activeLayerId
                              ELSE s.layers[layerOf(failAt)].id]]

Rasterized(h, s) ==
    RasterizedWith(h, s,
        [i \in DrawnBoxes(h, s) |->
            drawBox(s.layers[FindIndex(s.layers, h[s.doc].components[i].layerId)],
                    h[s.doc].components[i].rect.x, h[s.doc].components[i].rect.y,
                    h[s.doc].components[i].rect.w, h[s.doc].components[i].rect.h)])

\* Cells in which a cell shows the byte of the last declared visible layer that
\* has a bit in it, instead of the OR of all of them
Cells_TopmostWins(h, s, overlayPixels) ==
    LET docLayers == h[s.doc].layers
        shown(index) == {k \in DOMAIN docLayers :
                            /\ docLayers[k].visible
                            /\ FindIndex(s.layers, docLayers[k].id) # 0
                            /\ ByteAt(s.layers[FindIndex(s.layers, docLayers[k].id)].buffer,
                                      index) # {}}
        top(index) == CHOOSE k \in shown(index) : \A q \in shown(index) : q <= k
        active == FindIndex(s.layers, s.activeLayerId)
    IN  [index \in 0..(s.widthCells * s.heightCells - 1) |->
            [value |-> (IF shown(index) = {} THEN {}
                        ELSE ByteAt(s.layers[FindIndex(s.layers, docLayers[top(index)].id)].buffer,
                                    index))
                         \cup ByteAt(overlayPixels, index),
             useOverlay |-> ByteAt(overlayPixels, index) # {},
             isActive |-> /\ active # 0
                          /\ s.layers[active].visible
                          /\ ByteAt(s.layers[active].buffer, index) # {}]]

\* Cells in which the bits of the overlay colour a cell and are not shown
Cells_OverlayBitsLeftOut(h, s, overlayPixels) ==
    LET docLayers == h[s.doc].layers
        painted == {FindIndex(s.layers, docLayers[k].id) :
                        k \in {q \in DOMAIN docLayers : docLayers[q].visible}} \ {0}
        active == FindIndex(s.layers, s.activeLayerId)
    IN  [index \in 0..(s.widthCells * s.heightCells - 1) |->
            [value |-> UNION {ByteAt(s.layers[li].buffer, index) : li \in painted},
             useOverlay |-> ByteAt(overlayPixels, index) # {},
             isActive |-> /\ active # 0
                          /\ s.layers[active].visible
                          /\ ByteAt(s.layers[active].buffer, index) # {}]]

\* final, activeMask and the overlay buffer of render, cell by cell: value is
\* final[index] | overlayValue, as a set of masks
Cells(h, s, overlayPixels) ==
    LET docLayers == h[s.doc].layers
        painted == {FindIndex(s.layers, docLayers[k].id) :
                        k \in {q \in DOMAIN docLayers : docLayers[q].visible}} \ {0}
        active == FindIndex(s.layers, s.activeLayerId)
    IN  [index \in 0..(s.widthCells * s.heightCells - 1) |->
            [value |-> UNION {ByteAt(s.layers[li].buffer, index) : li \in painted}
                         \cup ByteAt(overlayPixels, index),
             useOverlay |-> ByteAt(overlayPixels, index) # {},
             isActive |-> /\ active # 0
                          /\ s.layers[active].visible
                          /\ ByteAt(s.layers[active].buffer, index) # {}]]

\* what the loop over the cells appends for one cell: before is the cell to
\* its left, or a cell without colour at the start of a row, since both toggles
\* are off there
CellPen(cell) ==
    IF cell.useOverlay THEN "overlay" ELSE IF cell.isActive THEN "active" ELSE "none"

\* CellText that leaves the overlay colour on when a cell without overlay follows
CellText_OverlayLeftOpen(pen, cell, colorOverlay) ==
    LET now == CellPen(cell)
        switch == CASE now = "overlay" ->
                          IF pen = "overlay" THEN << >> ELSE Appended(colorOverlay)
                    [] now = "active" ->
                          IF pen = "active" THEN << >> ELSE Appended(colorActive)
                    [] OTHER ->
                          IF pen = "active" THEN Appended(colorReset) ELSE << >>
    IN  switch \o <<Glyph(10240 + ByteValue(cell.value))>>

CellText(pen, cell, colorOverlay) ==
    LET now == CellPen(cell)
        switch == CASE now = "overlay" ->
                          IF pen = "overlay" THEN << >> ELSE Appended(colorOverlay)
                    [] now = "active" ->
                          (IF pen = "overlay" THEN Appended(colorReset) ELSE << >>)
                          \o (IF pen = "active" THEN << >> ELSE Appended(colorActive))
                    [] OTHER ->
                          IF pen = "none" THEN << >> ELSE Appended(colorReset)
    IN  switch \o <<Glyph(10240 + ByteValue(cell.value))>>

\* Output that does not close the colour at the end of a row: the next row
\* goes on with the pen the row ended with
Output_ColourCarriedOver(cells, widthCells, heightCells, colorOverlay) ==
    Joined([row \in 1..heightCells |->
        Joined([col \in 1..widthCells |->
            LET index == (row - 1) * widthCells + (col - 1)
            IN  CellText(IF index = 0 THEN "none" ELSE CellPen(cells[index - 1]),
                         cells[index], colorOverlay)])
        \o <<LineFeed>>])

Output(cells, widthCells, heightCells, colorOverlay) ==
    Joined([row \in 1..heightCells |->
        Joined([col \in 1..widthCells |->
            LET index == (row - 1) * widthCells + (col - 1)
            IN  CellText(IF col = 1 THEN "none" ELSE CellPen(cells[index - 1]),
                         cells[index], colorOverlay)])
        \o (IF CellPen(cells[row * widthCells - 1]) # "none"
            THEN Appended(colorReset) ELSE << >>)
        \o <<LineFeed>>])

\* the part of render after the rasterizing loop, dashed being the drawing of
\* the overlay's rect
ComposedWith(h, s, overlay, dashed) ==
    IF dashed.threw THEN [threw |-> TRUE, scene |-> s, out |-> << >>]
    ELSE [threw |-> FALSE, scene |-> s,
          out |-> Output(Cells(h, s, dashed.pixels), s.widthCells, s.heightCells,
                         IF overlay.color = UNDEFINED THEN colorGray ELSE overlay.color)]

Composed(h, s, overlay) ==
    ComposedWith(h, s, overlay,
                 IF overlay.given THEN drawDashedRect(s.widthCells, s.heightCells, overlay.rect)
                 ELSE [threw |-> FALSE, pixels |-> {}])

RenderFrom(h, raster, overlay) ==
    IF raster.threw THEN [threw |-> TRUE, scene |-> raster.scene, out |-> << >>]
    ELSE Composed(h, raster.scene, overlay)

\* render that highlights the layer that was active and leaves the active layer
\* where the rasterizing loop put it
NotRestored(h, s, result) ==
    IF result.threw \/ DrawnBoxes(h, s) = {} THEN result
    ELSE [result EXCEPT !.scene.activeLayerId =
            h[s.doc].components[CHOOSE i \in DrawnBoxes(h, s) :
                                   \A q \in DrawnBoxes(h, s) : q <= i].layerId]

render_NoRestore(h, s, overlay) ==
    NotRestored(h, s, RenderFrom(h, Rasterized(h, s), overlay))

\* render that draws the dashed rect on the buffer of the first layer as well
OverlayKept(h, raster, overlay, dashed) ==
    IF raster.threw \/ Len(raster.scene.layers) = 0 THEN RenderFrom(h, raster, overlay)
    ELSE Composed(h, [raster.scene EXCEPT !.layers[1].buffer = @ \cup dashed], overlay)

render_OverlayKept(h, s, overlay) ==
    OverlayKept(h, Rasterized(h, s), overlay,
                IF overlay.given
                THEN drawDashedRect(s.widthCells, s.heightCells, overlay.rect).pixels
                ELSE {})

\* render that takes every layer for visible
AllVisible(layers) == [i \in DOMAIN layers |-> [layers[i] EXCEPT !.visible = TRUE]]
VisibleAsIn(s, result) ==
    [result EXCEPT !.scene.layers =
        [i \in DOMAIN @ |-> [@[i] EXCEPT !.visible = s.layers[i].visible]]]

render_ShowsHidden(h, s, overlay) ==
    VisibleAsIn(s,
        RenderFrom([h EXCEPT ![s.doc].layers = AllVisible(@)],
                   Rasterized(h, [s EXCEPT !.layers = AllVisible(@)]), overlay))

\* scene.render(overlay): threw tells whether it throws, scene is the Scene
\* after the call, out the string it returns
render(h, s, overlay) == RenderFrom(h, Rasterized(h, s), overlay)

(***************************************************************************)
(* mouseInput.ts: the decoder of SGR mouse sequences.  A string is a       *)
(* sequence of characters, ESC standing for "\x1b".                        *)
(***************************************************************************)
ESC == "ESC"

\* "\x1b[<"
MousePrefix == <<ESC, "[", "<">>

\* buf.startsWith(text, i), i counted from 1
StartsWith(buf, text, i) ==
    /\ i + Len(text) - 1 <= Len(buf)
    /\ SubSeq(buf, i, i + Len(text) - 1) = text

\* the index of the first M or m at or after start, 0 for -1
findMouseSequenceEnd(buf, start) ==
    LET ends == {i \in start..Len(buf) : buf[i] \in {"M", "m"}}
    IN  IF ends = {} THEN 0 ELSE CHOOSE i \in ends : \A j \in ends : i <= j

DigitValue ==
    [c \in {"0", "1", "2", "3", "4", "5", "6", "7", "8", "9"} |->
        CASE c = "0" -> 0 [] c = "1" -> 1 [] c = "2" -> 2 [] c = "3" -> 3 [] c = "4" -> 4
          [] c = "5" -> 5 [] c = "6" -> 6 [] c = "7" -> 7 [] c = "8" -> 8 [] c = "9" -> 9]

\* Number(text) for a text of digits and letters: the empty text is 0, a text
\* of digits its decimal value, a text with a letter NaN
RECURSIVE NumberOf(_)
NumberOf(text) ==
    IF text = << >> THEN 0
    ELSE IF \E i \in DOMAIN text : text[i] \notin DOMAIN DigitValue THEN NaN
    ELSE NumberOf(SubSeq(text, 1, Len(text) - 1)) * 10 + DigitValue[text[Len(text)]]

\* body.split(";")[k - 1]
Part(body, k) ==
    LET cuts == {i \in DOMAIN body : body[i] = ";"}
        bounds == cuts \cup {0, Len(body) + 1}
        from == CHOOSE i \in bounds : Cardinality({q \in bounds : q < i}) = k - 1
        to == CHOOSE i \in bounds : Cardinality({q \in bounds : q < i}) = k
    IN  SubSeq(body, from + 1, to - 1)

\* body.split(";").length
Parts(body) == Cardinality({i \in DOMAIN body : body[i] = ";"}) + 1

NoMouseEvent == [kind |-> NULL, xCell |-> 0, yCell |-> 0, button |-> 0,
                 shift |-> FALSE, alt |-> FALSE, ctrl |-> FALSE]

\* null is NoMouseEvent
parseSgrMouse(seq) ==
    LET kindChar == seq[Len(seq)]
        body == SubSeq(seq, 4, Len(seq) - 1)
        b == NumberOf(Part(body, 1))
        xCell == NumberOf(Part(body, 2))
        yCell == NumberOf(Part(body, 3))
        isMotion == (b \div 32) % 2 = 1
    IN  IF ~StartsWith(seq, MousePrefix, 1) THEN NoMouseEvent
        ELSE IF Parts(body) # 3 THEN NoMouseEvent
        ELSE IF b = NaN \/ xCell = NaN \/ yCell = NaN THEN NoMouseEvent
        ELSE [kind |-> IF kindChar = "m" THEN "up" ELSE IF isMotion THEN "move" ELSE "down",
              xCell |-> xCell,
              yCell |-> yCell,
              button |-> b % 4,
              shift |-> (b \div 4) % 2 = 1,
              alt |-> (b \div 8) % 2 = 1,
              ctrl |-> (b \div 16) % 2 = 1]

\* the loop of consumeMouseSequences from index i on
RECURSIVE ConsumeFrom(_, _, _, _)
ConsumeFrom(buf, i, forward, events) ==
    IF i > Len(buf) THEN [forward |-> forward, rest |-> << >>, events |-> events]
    ELSE IF StartsWith(buf, MousePrefix, i)
    THEN LET end == findMouseSequenceEnd(buf, i + 3)
             ev == parseSgrMouse(SubSeq(buf, i, end))
         IN  IF end = 0
             THEN [forward |-> forward, rest |-> SubSeq(buf, i, Len(buf)), events |-> events]
             ELSE ConsumeFrom(buf, end + 1, forward,
                              IF ev = NoMouseEvent THEN events ELSE Append(events, ev))
    ELSE ConsumeFrom(buf, i + 1, Append(forward, buf[i]), events)

consumeMouseSequences(buf) == ConsumeFrom(buf, 1, << >>, << >>)

\* handleData on the decoder d = [buffer, forwarded, emitted]: forwarded is
\* what has been written to the input stream, emitted the mouse events
handleData(d, chunk) ==
    LET parsed == consumeMouseSequences(d.buffer \o chunk)
    IN  [buffer |-> parsed.rest,
         forwarded |-> d.forwarded \o parsed.forward,
         emitted |-> d.emitted \o parsed.events]

(***************************************************************************)
(* Scene methods that src/index.ts calls and src/layers.ts does not hold,  *)
(* after the specification's section 4.2                                   *)
(***************************************************************************)
\* fails if the id is unknown or the component is no box or image; otherwise
\* replaces the rect by a copy
updateComponentRect(h, s, id, rect) ==
    LET i == getComponentById(h, s, id)
    IN  IF i = 0 THEN Throw(h, s)
        ELSE IF h[s.doc].components[i].type \notin {"box", "image"} THEN Throw(h, s)
        ELSE Return([h EXCEPT ![s.doc].components[i].rect = rect], s)

\* replaces the meta map wholesale
updateComponentMeta(h, s, id, meta) ==
    LET i == getComponentById(h, s, id)
    IN  IF i = 0 THEN Throw(h, s)
        ELSE Return([h EXCEPT ![s.doc].components[i].meta = meta], s)

\* removeComponent that fails on an id no component has
removeComponent_Strict(h, s, id) ==
    IF getComponentById(h, s, id) = 0 THEN Throw(h, s)
    ELSE Return([h EXCEPT ![s.doc].components = SelectSeq(@, LAMBDA c : c.id # id)], s)

\* deletes the component; a no-op if it is absent
removeComponent(h, s, id) ==
    Return([h EXCEPT ![s.doc].components = SelectSeq(@, LAMBDA c : c.id # id)], s)

(***************************************************************************)
(* index.ts: geometry and hit testing                                      *)
(***************************************************************************)
Min(a, b) == IF a < b THEN a ELSE b
Max(a, b) == IF a > b THEN a ELSE b
Abs(n) == IF n < 0 THEN -n ELSE n

clamp(n, min, max) == Max(min, Min(max, n))

EDGE_THRESHOLD_PX == 2
MIN_W_PX == 2
MIN_H_PX == 2

Point(x, y) == [x |-> x, y |-> y]

\* comp.meta?.locked
Locked(meta) == meta.tag = "object" /\ <<"locked", "true">> \in meta.obj

NoBest == [edge |-> NULL, d |-> 0]

pickBest(current, next) ==
    IF current.edge = NULL THEN next
    ELSE IF next.d < current.d THEN next
    ELSE current

hitTestBoxEdge(rect, px, py, threshold) ==
    LET left == rect.x
        right == rect.x + rect.w - 1
        top == rect.y
        bottom == rect.y + rect.h - 1
        inY == py >= top - threshold /\ py <= bottom + threshold
        inX == px >= left - threshold /\ px <= right + threshold
        dl == Abs(px - left)
        dr == Abs(px - right)
        dt == Abs(py - top)
        db == Abs(py - bottom)
        b1 == IF inY /\ dl <= threshold THEN pickBest(NoBest, [edge |-> "w", d |-> dl]) ELSE NoBest
        b2 == IF inY /\ dr <= threshold THEN pickBest(b1, [edge |-> "e", d |-> dr]) ELSE b1
        b3 == IF inX /\ dt <= threshold THEN pickBest(b2, [edge |-> "n", d |-> dt]) ELSE b2
        b4 == IF inX /\ db <= threshold THEN pickBest(b3, [edge |-> "s", d |-> db]) ELSE b3
    IN  IF px < left - threshold \/ px > right + threshold THEN NULL
        ELSE IF py < top - threshold \/ py > bottom + threshold THEN NULL
        ELSE b4.edge

NoHit == [componentId |-> NULL, edge |-> NULL, rect |-> Rect(0, 0, 0, 0)]

\* the last component of the active layer, not locked, with an edge near the point
hitTestTopmostBoxEdge(h, s, px, py, threshold) ==
    LET comps == h[s.doc].components
        hits == {i \in DOMAIN comps :
                    /\ comps[i].type \in {"box", "image"}
                    /\ ~Locked(comps[i].meta)
                    /\ comps[i].layerId = s.activeLayerId
                    /\ hitTestBoxEdge(comps[i].rect, px, py, threshold) # NULL}
        top == CHOOSE i \in hits : \A j \in hits : j <= i
    IN  IF hits = {} THEN NoHit
        ELSE [componentId |-> comps[top].id,
              edge |-> hitTestBoxEdge(comps[top].rect, px, py, threshold),
              rect |-> comps[top].rect]

isPointInRect(point, rect) ==
    /\ point.x >= rect.x /\ point.y >= rect.y
    /\ point.x < rect.x + rect.w /\ point.y < rect.y + rect.h

\* the ids of the components of the active layer that hold the point, larger
\* area first, document order among equal areas
hitTestComponentStack(h, s, px, py) ==
    LET comps == h[s.doc].components
        hits == {i \in DOMAIN comps :
                    /\ comps[i].type \in {"box", "image"}
                    /\ comps[i].layerId = s.activeLayerId
                    /\ isPointInRect(Point(px, py), comps[i].rect)}
        area(i) == comps[i].rect.w * comps[i].rect.h
        before(j, i) == area(j) > area(i) \/ (area(j) = area(i) /\ j < i)
        rank(i) == 1 + Cardinality({j \in hits : before(j, i)})
    IN  [k \in 1..Cardinality(hits) |-> comps[CHOOSE i \in hits : rank(i) = k].id]

resizeRect(rect, edge, dx, dy, limits) ==
    LET maxX == limits.maxW - 1
        maxY == limits.maxH - 1
        right == rect.x + rect.w - 1
        bottom == rect.y + rect.h - 1
        xW == clamp(rect.x + dx, 0, right - (limits.minW - 1))
        yN == clamp(rect.y + dy, 0, bottom - (limits.minH - 1))
    IN  CASE edge = "e" -> [rect EXCEPT !.w = clamp(rect.w + dx, limits.minW, maxX - rect.x + 1)]
          [] edge = "s" -> [rect EXCEPT !.h = clamp(rect.h + dy, limits.minH, maxY - rect.y + 1)]
          [] edge = "w" -> [rect EXCEPT !.x = xW, !.w = right - xW + 1]
          [] edge = "n" -> [rect EXCEPT !.y = yN, !.h = bottom - yN + 1]
          [] OTHER -> rect

\* clampMoveRect that keeps the rect away from the left and top border only
clampMoveRect_LeftAndTopOnly(rect, maxW, maxH) ==
    Rect(Max(rect.x, 0), Max(rect.y, 0), rect.w, rect.h)

clampMoveRect(rect, maxW, maxH) ==
    LET maxX == Max(0, maxW - rect.w)
        maxY == Max(0, maxH - rect.h)
    IN  Rect(clamp(rect.x, 0, maxX), clamp(rect.y, 0, maxY), rect.w, rect.h)

\* start is {px, py}, end is {x, y}
normalizeRect(start, end) ==
    Rect(Min(start.px, end.x), Min(start.py, end.y),
         Abs(end.x - start.px) + 1, Abs(end.y - start.py) + 1)

clampRectToCanvas(rect, s) ==
    LET w1 == IF rect.x < 0 THEN rect.w + rect.x ELSE rect.w
        x1 == IF rect.x < 0 THEN 0 ELSE rect.x
        h1 == IF rect.y < 0 THEN rect.h + rect.y ELSE rect.h
        y1 == IF rect.y < 0 THEN 0 ELSE rect.y
        w2 == IF x1 + w1 > widthPx(s) THEN widthPx(s) - x1 ELSE w1
        h2 == IF y1 + h1 > heightPx(s) THEN heightPx(s) - y1 ELSE h1
    IN  Rect(x1, y1, Max(1, w2), Max(1, h2))

enforceMinSize(rect, minW, minH, s) ==
    LET w == Max(rect.w, minW)
        hh == Max(rect.h, minH)
        x == IF rect.x + w > widthPx(s) THEN Max(0, widthPx(s) - w) ELSE rect.x
        y == IF rect.y + hh > heightPx(s) THEN Max(0, heightPx(s) - hh) ELSE rect.y
    IN  clampRectToCanvas(Rect(x, y, w, hh), s)

finalizeCreateRect(start, end, minW, minH, s) ==
    LET isClick == start.px = end.x /\ start.py = end.y
        rect == clampRectToCanvas(normalizeRect(start, end), s)
    IN  IF isClick THEN clampRectToCanvas(Rect(start.px, start.py, minW, minH), s)
        ELSE IF rect.w < minW \/ rect.h < minH THEN enforceMinSize(rect, minW, minH, s)
        ELSE rect

isPointInCanvas(point, s) ==
    /\ point.x >= 0 /\ point.y >= 0
    /\ point.x < widthPx(s) /\ point.y < heightPx(s)

(***************************************************************************)
(* compactDoc.ts                                                           *)
(***************************************************************************)
\* a node tuple; len is its length: 4 without a meta element, 5 with one (a
\* malformed tuple has another length)
CompactNode(type, id, layerId, rect, meta) ==
    [type |-> type, id |-> id, layerId |-> layerId, rect |-> rect, meta |-> meta,
     len |-> IF meta.tag = "absent" THEN 4 ELSE 5]

\* JSON values that are not strings, named by their text: typeof v === "string"
NonStrings == {"#7", "#null"}
IsString(v) == v \notin NonStrings

\* !!value
Truthy(meta) == meta.tag \in {"object", "array", "text"}

\* !!value && typeof value === "object" && !Array.isArray(value)
isPlainObject(meta) ==
    Truthy(meta) /\ meta.tag \in {"object", "array", "null"} /\ meta.tag # "array"

rectToArray(rect) == <<rect.x, rect.y, rect.w, rect.h>>
arrayToRect(rect) == Rect(rect[1], rect[2], rect[3], rect[4])

\* meta && Object.keys(meta).length > 0
NonEmptyObject(meta) == meta.tag = "object" /\ meta.obj # {}

compactFromSceneDoc(doc) ==
    LET comps == SelectSeq(doc.components, LAMBDA c : c.type \in {"box", "image"})
    IN  [v |-> 1,
         w |-> doc.size.widthCells * 2,
         h |-> doc.size.heightCells * 4,
         layers |-> Ids(doc.layers),
         nodes |-> [i \in DOMAIN comps |->
                      CompactNode(comps[i].type, comps[i].id, comps[i].layerId,
                                  rectToArray(comps[i].rect),
                                  IF NonEmptyObject(comps[i].meta)
                                  THEN comps[i].meta ELSE MetaAbsent)],
         meta |-> IF NonEmptyObject(doc.meta) THEN doc.meta ELSE MetaAbsent]

\* TRUE when it returns, FALSE when it throws
validateRectArray(rect) ==
    /\ Len(rect) = 4
    /\ \A i \in DOMAIN rect : IsFinite(rect[i])
    /\ ~(JsLt(rect[3], 1) \/ JsLt(rect[4], 1))

\* validateCompactDoc without the test that a node's type is a string
validateCompactDoc_NoTypeCheck(doc) ==
    /\ doc.v = 1
    /\ IsFinite(doc.w) /\ IsFinite(doc.h)
    /\ ~(JsLt(doc.w, 2) \/ JsLt(doc.h, 4))
    /\ ~(doc.w % 2 # 0 \/ doc.h % 4 # 0)
    /\ \A i \in DOMAIN doc.layers :
          /\ ~(~IsString(doc.layers[i]) \/ doc.layers[i] = "")
          /\ \A j \in 1..(i - 1) : doc.layers[j] # doc.layers[i]
    /\ \A i \in DOMAIN doc.nodes :
          /\ ~(doc.nodes[i].len < 4 \/ doc.nodes[i].len > 5)
          /\ ~(~IsString(doc.nodes[i].id) \/ doc.nodes[i].id = "")
          /\ \A j \in 1..(i - 1) : doc.nodes[j].id # doc.nodes[i].id
          /\ ~(~IsString(doc.nodes[i].layerId) \/ doc.nodes[i].layerId \notin Range(doc.layers))
          /\ validateRectArray(doc.nodes[i].rect)
          /\ ~(doc.nodes[i].len = 5 /\ ~isPlainObject(doc.nodes[i].meta))
    /\ ~(Truthy(doc.meta) /\ ~isPlainObject(doc.meta))

\* TRUE when it returns, FALSE when it throws
validateCompactDoc(doc) ==
    /\ doc.v = 1
    /\ IsFinite(doc.w) /\ IsFinite(doc.h)
    /\ ~(JsLt(doc.w, 2) \/ JsLt(doc.h, 4))
    /\ ~(doc.w % 2 # 0 \/ doc.h % 4 # 0)
    /\ \A i \in DOMAIN doc.layers :
          /\ ~(~IsString(doc.layers[i]) \/ doc.layers[i] = "")
          /\ \A j \in 1..(i - 1) : doc.layers[j] # doc.layers[i]
    /\ \A i \in DOMAIN doc.nodes :
          /\ ~(doc.nodes[i].len < 4 \/ doc.nodes[i].len > 5)
          /\ IsString(doc.nodes[i].type)
          /\ ~(~IsString(doc.nodes[i].id) \/ doc.nodes[i].id = "")
          /\ \A j \in 1..(i - 1) : doc.nodes[j].id # doc.nodes[i].id
          /\ ~(~IsString(doc.nodes[i].layerId) \/ doc.nodes[i].layerId \notin Range(doc.layers))
          /\ validateRectArray(doc.nodes[i].rect)
          /\ ~(doc.nodes[i].len = 5 /\ ~isPlainObject(doc.nodes[i].meta))
    /\ ~(Truthy(doc.meta) /\ ~isPlainObject(doc.meta))

SUPPORTED_NODE_TYPES == {"box", "text", "image", "button"}

\* compactDoc.ts's nextComponentId(ids): the least n >= 1 with c<n> not in ids
compactNextComponentId(ids) ==
    CHOOSE n \in 1..(Cardinality(ids) + 1) :
        /\ ("c" \o ToString(n)) \notin ids
        /\ \A m \in 1..(n - 1) : ("c" \o ToString(m)) \in ids

CompactWarning(nodeType, nodeId) ==
    [type |-> "unsupportedNode", nodeType |-> nodeType, nodeId |-> nodeId]

\* the loop over the nodes with its first test only: text and button nodes
\* become components
SkippedNode_UnknownOnly(n) == n.type \notin SUPPORTED_NODE_TYPES

\* the two tests of the loop over the nodes that end in a warning
SkippedNode(n) == n.type \notin SUPPORTED_NODE_TYPES \/ ~(n.type \in {"box", "image"})

\* ok is FALSE when validateCompactDoc throws
sceneDocFromCompact(doc) ==
    LET kept == SelectSeq(doc.nodes, LAMBDA n : ~SkippedNode(n))
        skipped == SelectSeq(doc.nodes, SkippedNode)
        components ==
            [i \in DOMAIN kept |->
                [id |-> kept[i].id, type |-> kept[i].type, layerId |-> kept[i].layerId,
                 rect |-> arrayToRect(kept[i].rect),
                 meta |-> IF kept[i].meta.tag = "absent" THEN MetaUndefined
                          ELSE kept[i].meta]]
    IN  IF ~validateCompactDoc(doc)
        THEN [ok |-> FALSE, doc |-> NewDoc(1, 1), warnings |-> << >>]
        ELSE [ok |-> TRUE,
              doc |-> [schemaVersion |-> 1,
                       units |-> "px",
                       size |-> [widthCells |-> doc.w \div 2, heightCells |-> doc.h \div 4],
                       layers |-> [i \in DOMAIN doc.layers |->
                                      [id |-> doc.layers[i], name |-> doc.layers[i],
                                       visible |-> TRUE]],
                       components |-> components,
                       state |-> [nextId |-> compactNextComponentId(Range(Ids(components)))],
                       meta |-> IF NonEmptyObject(doc.meta) THEN doc.meta ELSE MetaAbsent],
              warnings |-> [i \in DOMAIN skipped |->
                              CompactWarning(skipped[i].type, skipped[i].id)]]

(***************************************************************************)
(* tokenizer.ts, parser, valueUtils                                        *)
(* A command line is given by its words: the command name, the positional  *)
(* arguments and the key=value arguments.                                  *)
(***************************************************************************)
Identifier(v) == [type |-> "identifier", value |-> v, num |-> 0]
Number(n) == [type |-> "number", value |-> "", num |-> n]
NoValue == [type |-> "undefined", value |-> "", num |-> 0]

CommandLine(name, args, namedArgs) == [name |-> name, args |-> args, namedArgs |-> namedArgs]

\* args[i - 1], namedArgs[key]
Arg(args, i) == IF i \in DOMAIN args THEN args[i] ELSE NoValue
Named(namedArgs, key) ==
    IF \E p \in namedArgs : p[1] = key
    THEN (CHOOSE p \in namedArgs : p[1] = key)[2]
    ELSE NoValue

\* the tokenizer reads digits only as a number: a minus sign is an unexpected
\* character, and tokenize throws
tokenize(line) ==
    [ok |-> \A p \in line.namedArgs : p[2].type = "number" => p[2].num >= 0,
     tokens |-> line]

parseCommand(tokens) ==
    [type |-> IF /\ tokens.name = "add"
                 /\ Arg(tokens.args, 1).value \in {"box", "image"}
                 /\ tokens.namedArgs = {}
              THEN "incomplete" ELSE "command",
     name |-> tokens.name,
     args |-> tokens.args,
     namedArgs |-> tokens.namedArgs]

\* ok is FALSE when the function throws
asString(v) == [ok |-> v.type \in {"string", "identifier"}, value |-> v.value]
asNumber(v) == [ok |-> v.type = "number", value |-> v.num]

(***************************************************************************)
(* index.ts: the editor's module-level variables                           *)
(***************************************************************************)
NoPoint == [set |-> FALSE, x |-> 0, y |-> 0]
SomePoint(x, y) == [set |-> TRUE, x |-> x, y |-> y]

NoStart == [set |-> FALSE, px |-> 0, py |-> 0]
NoPreview == [set |-> FALSE, rect |-> Rect(0, 0, 0, 0)]

\* pendingAction = null
NoPending ==
    [kind |-> NULL, layerId |-> NULL, startedAt |-> NoStart, previewRect |-> NoPreview,
     constraints |-> [withinFrame |-> TRUE, minW |-> 0, minH |-> 0]]

\* metaEdit = null, drag = null
NoMetaEdit == [componentId |-> NULL, original |-> MetaAbsent, buffer |-> MetaAbsent]
NoDrag ==
    [kind |-> NULL, componentId |-> NULL, edge |-> NULL,
     startMousePx |-> Point(0, 0), startRect |-> Rect(0, 0, 0, 0)]

\* a file: missing, or text that JSON.parse rejects, or the JSON text of a
\* compact document (the text is named by the value it denotes: a compact
\* document holds numbers, strings, arrays and objects of strings only)
NoCompact == [v |-> 0, w |-> 0, h |-> 0, layers |-> << >>, nodes |-> << >>, meta |-> MetaAbsent]
FileMissing == [exists |-> FALSE, json |-> FALSE, value |-> NoCompact]
FileJson(compact) == [exists |-> TRUE, json |-> TRUE, value |-> compact]
\* a file whose text JSON.parse rejects
FileText == [exists |-> TRUE, json |-> FALSE, value |-> NoCompact]

\* files on disk when the editor starts: f holds a box and a text node, bad has
\* an unsupported schema version
InitialFiles ==
    [name \in {"f", "bad"} |->
        IF name = "f"
        THEN FileJson([v |-> 1, w |-> 80, h |-> 32, layers |-> <<"base">>,
                       nodes |-> <<CompactNode("box", "c2", "base", <<8, 4, 16, 12>>, MetaAbsent),
                                   CompactNode("text", "t1", "base", <<0, 0, 4, 4>>, MetaAbsent)>>,
                       meta |-> MetaAbsent])
        ELSE FileJson([NoCompact EXCEPT !.v = 2])]

\* the variables of index.ts but scene; files is the disk, exited is set when
\* the process has ended (process.exit or an uncaught exception in a handler)
EdInit ==
    [errorMessage |-> NULL,
     warningMessage |-> NULL,
     infoMessage |-> NULL,
     pendingAction |-> NoPending,
     selectedComponentId |-> NULL,
     selectionPoint |-> NoPoint,
     selectionStack |-> << >>,
     selectionIndex |-> 0,
     metaEdit |-> NoMetaEdit,
     metaEditError |-> FALSE,
     commandStack |-> << >>,
     undoStack |-> << >>,
     drag |-> NoDrag,
     currentFilename |-> NULL,
     files |-> InitialFiles,
     exited |-> FALSE]

\* what a handler works on: the heap, the scene variable, the other variables
World(h, s, e) == [heap |-> h, scene |-> s, ed |-> e]

\* the world after a Scene method returned or threw res
AfterCall(w, res) == [w EXCEPT !.heap = res.heap, !.scene = res.scene]

\* a handler's outcome: threw is TRUE when an exception leaves it
Done(w) == [threw |-> FALSE, world |-> w]
Thrown(w) == [threw |-> TRUE, world |-> w]

showError(w, msg) == [w EXCEPT !.ed.errorMessage = msg]

clearStatusMessages(w) ==
    [w EXCEPT !.ed.errorMessage = NULL, !.ed.warningMessage = NULL, !.ed.infoMessage = NULL]

clearSelection(w) ==
    [w EXCEPT !.ed.selectedComponentId = NULL,
              !.ed.selectionPoint = NoPoint,
              !.ed.selectionStack = << >>,
              !.ed.selectionIndex = 0]

\* process.exit
shutdown(w) == [w EXCEPT !.ed.exited = TRUE]

\* String(err) of an exception caught by a handler
ErrorText == "Error"

(***************************************************************************)
(* commandExecutor.ts                                                      *)
(***************************************************************************)
ExecResult(type, w) ==
    [threw |-> FALSE, type |-> type, world |-> w, filename |-> "", message |-> "",
     pendingAction |-> NoPending]
ExecThrow(w) == [ExecResult("none", w) EXCEPT !.threw = TRUE]

HelpMessage == "Commands: :w [filename] save (default scene.json), :e [filename] load, :q quit"

execute(w, cmd) ==
    LET arg1 == Arg(cmd.args, 1).value
        arg2 == asString(Arg(cmd.args, 2))
        n == cmd.namedArgs
        x == asNumber(Named(n, "x"))
        y == asNumber(Named(n, "y"))
        bw == asNumber(Named(n, "w"))
        bh == asNumber(Named(n, "h"))
        added == addLayer(w.heap, w.scene, arg2.value)
        selected == setActiveLayer(w.heap, w.scene, arg2.value)
        boxed == addBox(w.heap, w.scene,
                        [layerId |-> UNDEFINED, id |-> UNDEFINED, meta |-> MetaUndefined,
                         rect |-> Rect(x.value, y.value, bw.value, bh.value)])
        call(res) == IF res.ok THEN ExecResult("render", AfterCall(w, res))
                     ELSE ExecThrow(AfterCall(w, res))
    IN  IF cmd.type = "incomplete" /\ cmd.name = "add" /\ arg1 = "box"
        THEN IF w.scene.activeLayerId \in {NULL, ""} THEN ExecThrow(w)
             ELSE [ExecResult("needsInteraction", w) EXCEPT
                      !.pendingAction =
                          [kind |-> "createBoxDrag",
                           layerId |-> w.scene.activeLayerId,
                           startedAt |-> NoStart,
                           previewRect |-> NoPreview,
                           constraints |-> [withinFrame |-> TRUE, minW |-> 80, minH |-> 40]]]
        ELSE CASE cmd.name = "help" ->
                    [ExecResult("info", w) EXCEPT !.message = HelpMessage]
               [] cmd.name = "w" ->
                    IF Len(cmd.args) > 0
                    THEN IF asString(Arg(cmd.args, 1)).ok
                         THEN [ExecResult("save", w) EXCEPT !.filename = arg1]
                         ELSE ExecThrow(w)
                    ELSE [ExecResult("save", w) EXCEPT !.filename = "scene.json"]
               [] cmd.name = "e" ->
                    IF asString(Arg(cmd.args, 1)).ok
                    THEN [ExecResult("load", w) EXCEPT !.filename = arg1]
                    ELSE ExecThrow(w)
               [] cmd.name \in {"q", "quit"} -> ExecResult("quit", w)
               [] cmd.name = "layer" ->
                    IF arg1 = "add"
                    THEN IF arg2.ok THEN call(added) ELSE ExecThrow(w)
                    ELSE IF arg1 = "select"
                    THEN IF arg2.ok THEN call(selected) ELSE ExecThrow(w)
                    ELSE ExecResult("none", w)
               [] cmd.name = "add" ->
                    IF arg1 = "box"
                    THEN IF x.ok /\ y.ok /\ bw.ok /\ bh.ok THEN call(boxed) ELSE ExecThrow(w)
                    ELSE ExecResult("none", w)
               [] OTHER -> ExecResult("none", w)

(***************************************************************************)
(* index.ts: undo, load and save, the command line                         *)
(***************************************************************************)
\* createUndoEntry whose entry refers to the live document instead of a copy
createUndoEntry_NoCopy(w, command) ==
    [entry |-> [command |-> command, doc |-> w.scene.doc,
                activeLayerId |-> w.scene.activeLayerId],
     world |-> w]

\* the entry, and the world in which the copy of the document exists
createUndoEntry(w, command) ==
    LET snapshot == toDoc(w.heap, w.scene)
    IN  [entry |-> [command |-> command, doc |-> snapshot.ref,
                    activeLayerId |-> w.scene.activeLayerId],
         world |-> [w EXCEPT !.heap = snapshot.heap]]

recordUndoEntry(w, entry) ==
    [w EXCEPT !.ed.undoStack = Append(@, entry),
              !.ed.commandStack = Append(@, entry.command)]

shouldRecordUndo(result) == result.type \in {"render", "load"}

\* undoLastCommand taking the oldest entry of the stack instead of the newest
undoLastCommand_Oldest(w) ==
    LET us == w.ed.undoStack
        n == Len(us)
        entry == us[1]
        w1 == [w EXCEPT !.ed.undoStack = SubSeq(us, 2, n),
                        !.ed.commandStack = SubSeq(@, 1, Len(@) - 1)]
        res == fromDoc(w1.heap, entry.doc)
        w2 == clearSelection(
                [w1 EXCEPT !.heap = res.heap,
                           !.scene = [res.scene EXCEPT !.activeLayerId = entry.activeLayerId],
                           !.ed.pendingAction = NoPending,
                           !.ed.drag = NoDrag])
    IN  IF n = 0 THEN Done(w)
        ELSE IF ~res.ok THEN Thrown(w1)
        ELSE Done([w2 EXCEPT !.ed.metaEdit = NoMetaEdit, !.ed.metaEditError = FALSE])

undoLastCommand(w) ==
    LET us == w.ed.undoStack
        n == Len(us)
        entry == us[n]
        w1 == [w EXCEPT !.ed.undoStack = SubSeq(us, 1, n - 1),
                        !.ed.commandStack = SubSeq(@, 1, Len(@) - 1)]
        res == fromDoc(w1.heap, entry.doc)
        w2 == clearSelection(
                [w1 EXCEPT !.heap = res.heap,
                           !.scene = [res.scene EXCEPT !.activeLayerId = entry.activeLayerId],
                           !.ed.pendingAction = NoPending,
                           !.ed.drag = NoDrag])
    IN  IF n = 0 THEN Done(w)
        ELSE IF ~res.ok THEN Thrown(w1)
        ELSE Done([w2 EXCEPT !.ed.metaEdit = NoMetaEdit, !.ed.metaEditError = FALSE])

NoSelectionMessage == "No selected component. Click a component in the active layer first."
NotInLayerMessage == "No selected component in the active layer."

DeleteCommand ==
    [type |-> "command", name |-> "delete", args |-> << >>, namedArgs |-> {}]
MetaCommand ==
    [type |-> "command", name |-> "meta", args |-> << >>, namedArgs |-> {}]

deleteSelectedComponent(w) ==
    LET id == w.ed.selectedComponentId
        i == getComponentById(w.heap, w.scene, id)
        comp == w.heap[w.scene.doc].components[i]
        made == createUndoEntry(w, DeleteCommand)
        removed == removeComponent(made.world.heap, made.world.scene, comp.id)
    IN  IF id \in {NULL, ""} THEN showError(w, NoSelectionMessage)
        ELSE IF i = 0 \/ comp.layerId # w.scene.activeLayerId
        THEN showError(w, NotInLayerMessage)
        ELSE clearSelection(recordUndoEntry(AfterCall(made.world, removed), made.entry))

handleShortcut(w, key) ==
    LET w1 == IF key = "u" THEN undoLastCommand(w) ELSE Done(w)
    IN  IF w1.threw THEN w1
        ELSE IF key = "x" THEN Done(deleteSelectedComponent(w1.world))
        ELSE w1

\* warnings.map(...).join(", ")
RECURSIVE JoinLabels(_)
JoinLabels(labels) ==
    IF Len(labels) = 0 THEN ""
    ELSE IF Len(labels) = 1 THEN labels[1]
    ELSE labels[1] \o ", " \o JoinLabels(Tail(labels))

formatWarnings(warnings) ==
    LET labels == [i \in DOMAIN warnings |->
                      warnings[i].nodeType \o ":" \o warnings[i].nodeId]
    IN  "Warning: skipped unsupported nodes (" \o JoinLabels(labels) \o ")"

resolveSaveFilename(w, explicit) ==
    IF explicit # "" THEN explicit
    ELSE IF w.ed.currentFilename \notin {NULL, ""} THEN w.ed.currentFilename
    ELSE NULL

saveCompactDoc(w, filename) ==
    LET snapshot == toDoc(w.heap, w.scene)
        compact == compactFromSceneDoc(snapshot.heap[snapshot.ref])
    IN  [w EXCEPT !.heap = snapshot.heap,
                  !.ed.files = (filename :> FileJson(compact)) @@ @,
                  !.ed.currentFilename = filename,
                  !.ed.warningMessage = NULL,
                  !.ed.infoMessage = "Saved " \o filename]

loadCompactDoc(w, filename) ==
    LET file == IF filename \in DOMAIN w.ed.files THEN w.ed.files[filename] ELSE FileMissing
        conv == sceneDocFromCompact(file.value)
        arg == FreshRef(w.heap)
        res == fromDoc(w.heap @@ (arg :> conv.doc), arg)
        w1 == clearSelection(
                [w EXCEPT !.heap = res.heap,
                          !.scene = res.scene,
                          !.ed.pendingAction = NoPending,
                          !.ed.drag = NoDrag])
        w2 == [w1 EXCEPT !.ed.metaEdit = NoMetaEdit,
                         !.ed.metaEditError = FALSE,
                         !.ed.currentFilename = filename]
    IN  IF ~file.exists \/ ~file.json THEN Thrown(w)
        ELSE IF ~conv.ok \/ ~res.ok THEN Thrown(w)
        ELSE IF Len(conv.warnings) > 0
        THEN Done([w2 EXCEPT !.ed.warningMessage = formatWarnings(conv.warnings),
                             !.ed.infoMessage = NULL])
        ELSE Done([w2 EXCEPT !.ed.warningMessage = NULL,
                             !.ed.infoMessage = "Loaded " \o filename])

openMetaEditor(w) ==
    LET id == w.ed.selectedComponentId
        i == getComponentById(w.heap, w.scene, id)
        comp == w.heap[w.scene.doc].components[i]
        meta == IF comp.meta.tag = "object" THEN comp.meta
                ELSE MetaObject({<<"description", "">>})
    IN  IF id \in {NULL, ""} THEN showError(w, NoSelectionMessage)
        ELSE IF i = 0 \/ comp.layerId # w.scene.activeLayerId
        THEN showError(w, NotInLayerMessage)
        ELSE clearStatusMessages(
                [w EXCEPT !.ed.metaEdit =
                              [componentId |-> comp.id, original |-> meta, buffer |-> meta],
                          !.ed.pendingAction = NoPending,
                          !.ed.metaEditError = FALSE])

NoFilenameMessage == "No filename specified. Use :w <filename> first."

\* if (undoEntry && shouldRecordUndo(result)) recordUndoEntry(undoEntry): the
\* world v with the entry recorded when the line was a command and the result
\* asks for it
RecordIfAsked(ast, entry, result, v) ==
    IF ast.type = "command" /\ shouldRecordUndo(result)
    THEN recordUndoEntry(v, entry) ELSE v

\* the load branch recording the undo entry whether or not the load succeeded
RunLoaded_RecordsFailedLoad(ast, entry, result, loaded) ==
    IF loaded.threw THEN Thrown(RecordIfAsked(ast, entry, result, loaded.world))
    ELSE Done(RecordIfAsked(ast, entry, result, loaded.world))

\* runCommandLine's branch for a load result, loaded being the outcome of
\* loadCompactDoc: an exception leaves runCommandLine before the entry is recorded
RunLoaded(ast, entry, result, loaded) ==
    IF loaded.threw THEN Thrown(loaded.world)
    ELSE Done(RecordIfAsked(ast, entry, result, loaded.world))

\* runCommandLine from the outcome of execute on; entry is the undo entry made
\* before execute
RunExecuted(ast, entry, result) ==
    LET w2 == result.world
        filename == resolveSaveFilename(w2, result.filename)
    IN  IF result.threw THEN Thrown(w2)
        ELSE CASE result.type = "save" ->
                    IF filename = NULL THEN Done(showError(w2, NoFilenameMessage))
                    ELSE Done(saveCompactDoc(w2, filename))
               [] result.type = "load" ->
                    RunLoaded(ast, entry, result, loadCompactDoc(w2, result.filename))
               [] result.type = "info" ->
                    Done([w2 EXCEPT !.ed.warningMessage = NULL,
                                    !.ed.infoMessage = result.message])
               [] result.type = "needsInteraction" ->
                    Done(RecordIfAsked(ast, entry, result,
                                       [w2 EXCEPT !.ed.pendingAction = result.pendingAction]))
               [] result.type = "quit" -> Done(shutdown(w2))
               [] OTHER -> Done(RecordIfAsked(ast, entry, result, w2))

runCommandLine(w, line) ==
    LET toks == tokenize(line)
        ast == parseCommand(toks.tokens)
        made == createUndoEntry(w, ast)
        w1 == IF ast.type = "command" THEN made.world ELSE w
    IN  IF ~toks.ok THEN Thrown(w)
        ELSE IF ast.type = "command" /\ ast.name = "meta" THEN Done(openMetaEditor(w))
        ELSE RunExecuted(ast, made.entry, execute(w1, ast))

(***************************************************************************)
(* index.ts: the keypress, mouse and line handlers                         *)
(***************************************************************************)
TERM_HEIGHT == 10
TERM_WIDTH == 40
DESIGN_HEIGHT == TERM_HEIGHT - 2

\* the line `:add box x=.. y=.. w=.. h=..` that handlePendingAction builds
AddBoxLine(rect) ==
    CommandLine("add", <<Identifier("box")>>,
                {<<"x", Number(rect.x)>>, <<"y", Number(rect.y)>>,
                 <<"w", Number(rect.w)>>, <<"h", Number(rect.h)>>})

\* handlePendingAction that commits the component on a mouse move already
handlePendingAction_CommitsOnMove(w, ev, mousePx) ==
    LET pa == w.ed.pendingAction
        start == pa.startedAt
        handled(v) == [handled |-> TRUE, world |-> v]
        rect == finalizeCreateRect(start, mousePx, pa.constraints.minW,
                                   pa.constraints.minH, w.scene)
        w1 == [w EXCEPT !.ed.pendingAction = NoPending]
        ran == runCommandLine(w1, AddBoxLine(rect))
    IN  IF pa.kind = NULL THEN [handled |-> FALSE, world |-> w]
        ELSE IF pa.kind \notin {"createBoxDrag", "createImageDrag"}
        THEN [handled |-> FALSE, world |-> w]
        ELSE IF ev.kind = "down"
        THEN IF ev.button # 0 THEN handled(w)
             ELSE IF ~isPointInCanvas(mousePx, w.scene) THEN handled(w)
             ELSE handled([w EXCEPT
                     !.ed.pendingAction.startedAt =
                         [set |-> TRUE, px |-> mousePx.x, py |-> mousePx.y],
                     !.ed.pendingAction.previewRect =
                         [set |-> TRUE, rect |-> Rect(mousePx.x, mousePx.y, 1, 1)]])
        ELSE IF ~start.set THEN handled(w)
        ELSE IF ev.kind \in {"move", "up"}
        THEN handled(IF ran.threw THEN showError(ran.world, ErrorText) ELSE ran.world)
        ELSE handled(w)

\* handled is the function's return value
handlePendingAction(w, ev, mousePx) ==
    LET pa == w.ed.pendingAction
        start == pa.startedAt
        handled(v) == [handled |-> TRUE, world |-> v]
        preview == clampRectToCanvas(normalizeRect(start, mousePx), w.scene)
        rect == finalizeCreateRect(start, mousePx, pa.constraints.minW,
                                   pa.constraints.minH, w.scene)
        w1 == [w EXCEPT !.ed.pendingAction = NoPending]
        ran == runCommandLine(w1, AddBoxLine(rect))
    IN  IF pa.kind = NULL THEN [handled |-> FALSE, world |-> w]
        ELSE IF pa.kind \notin {"createBoxDrag", "createImageDrag"}
        THEN [handled |-> FALSE, world |-> w]
        ELSE IF ev.kind = "down"
        THEN IF ev.button # 0 THEN handled(w)
             ELSE IF ~isPointInCanvas(mousePx, w.scene) THEN handled(w)
             ELSE handled([w EXCEPT
                     !.ed.pendingAction.startedAt =
                         [set |-> TRUE, px |-> mousePx.x, py |-> mousePx.y],
                     !.ed.pendingAction.previewRect =
                         [set |-> TRUE, rect |-> Rect(mousePx.x, mousePx.y, 1, 1)]])
        ELSE IF ~start.set THEN handled(w)
        ELSE IF ev.kind = "move"
        THEN handled([w EXCEPT !.ed.pendingAction.previewRect =
                                   [set |-> TRUE, rect |-> preview]])
        ELSE IF ev.kind = "up"
        THEN handled(IF ran.threw THEN showError(ran.world, ErrorText) ELSE ran.world)
        ELSE handled(w)

InvalidJsonMessage ==
    "Invalid JSON. Enter an object or press Esc to cancel and keep previous metadata."

\* a line of input: empty, a lone colon, text without a leading colon, a
\* command line, or JSON text (json names the value the text denotes, an object
\* or not)
TextLine(kind) ==
    [kind |-> kind, command |-> CommandLine("", << >>, {}), json |-> MetaAbsent]
CommandText(line) == [TextLine("command") EXCEPT !.command = line]
JsonText(value) == [TextLine("json") EXCEPT !.json = value]

handleMetaEditSubmit(w, text) ==
    LET me == w.ed.metaEdit
        buffer == IF text.kind = "json" THEN text.json ELSE MetaAbsent
        w1 == [w EXCEPT !.ed.metaEdit.buffer = buffer]
        isObject == text.kind = "json" /\ text.json.tag = "object"
        failed == showError([w1 EXCEPT !.ed.metaEditError = TRUE], InvalidJsonMessage)
        made == createUndoEntry(w1, MetaCommand)
        updated == updateComponentMeta(made.world.heap, made.world.scene,
                                       me.componentId, text.json)
        w2 == recordUndoEntry(AfterCall(made.world, updated), made.entry)
    IN  IF me.componentId = NULL THEN w
        ELSE IF ~isObject THEN failed
        ELSE IF ~updated.ok THEN failed
        ELSE clearStatusMessages(
                [w2 EXCEPT !.ed.metaEdit = NoMetaEdit, !.ed.metaEditError = FALSE])

\* a key: its name, the character it sends, the ctrl modifier
Key(name, str, ctrl) == [name |-> name, str |-> str, ctrl |-> ctrl]

\* /[ -~]/ on a string of length 1
isPrintableAscii(str) == str \in {":", "u", "x", "a", " "}

shouldClearError(key) ==
    IF key.str = "" THEN FALSE
    ELSE IF key.ctrl THEN FALSE
    ELSE IF key.name \in {"backspace", "delete"} THEN TRUE
    ELSE isPrintableAscii(key.str)

\* the keypress listener; colonMode is isColonMode(), read from readline's line
\* (the arrow keys, which step through the command history, are left out with
\* the history)
keypress(w, key, colonMode) ==
    LET e == w.ed
        clear == shouldClearError(key)
        w1 == IF e.errorMessage # NULL /\ clear
              THEN [w EXCEPT !.ed.errorMessage = NULL] ELSE w
        cycled(direction) ==
            clearSelection(AfterCall(w1, cycleActiveLayer(w1.heap, w1.scene, direction)))
    IN  IF e.pendingAction.kind # NULL /\ key.name = "escape"
        THEN Done([w EXCEPT !.ed.pendingAction = NoPending])
        ELSE IF e.metaEdit.componentId # NULL /\ key.name = "escape"
        THEN Done([w EXCEPT !.ed.metaEdit = NoMetaEdit,
                            !.ed.metaEditError = FALSE,
                            !.ed.errorMessage = NULL])
        ELSE IF e.errorMessage # NULL /\ clear /\ e.metaEdit.componentId = NULL THEN Done(w1)
        ELSE IF e.warningMessage # NULL /\ clear
        THEN Done([w1 EXCEPT !.ed.warningMessage = NULL])
        ELSE IF e.infoMessage # NULL /\ clear
        THEN Done([w1 EXCEPT !.ed.infoMessage = NULL])
        ELSE IF key.ctrl
        THEN IF key.name = "n" THEN Done(cycled(-1))
             ELSE IF key.name = "p" THEN Done(cycled(1))
             ELSE Done(w1)
        ELSE IF e.pendingAction.kind # NULL THEN Done(w1)
        ELSE IF e.metaEdit.componentId # NULL THEN Done(w1)
        ELSE IF colonMode THEN Done(w1)
        ELSE IF key.str = ":" THEN Done(w1)
        ELSE IF isPrintableAscii(key.str) THEN handleShortcut(w1, key.str)
        ELSE Done(w1)

MouseEvent(kind, button, xCell, yCell) ==
    [kind |-> kind, button |-> button, xCell |-> xCell, yCell |-> yCell]

\* the mouse listener; an exception that leaves it ends the process
mouse(w, ev) ==
    LET mousePx == Point((ev.xCell - 1) * 2 + 1, (ev.yCell - 1) * 4 + 2)
        pending == handlePendingAction(w, ev, mousePx)
        e == w.ed
        hit == hitTestTopmostBoxEdge(w.heap, w.scene, mousePx.x, mousePx.y, EDGE_THRESHOLD_PX)
        si == IF e.selectedComponentId \in {NULL, ""} THEN 0
              ELSE getComponentById(w.heap, w.scene, e.selectedComponentId)
        selectedComp == w.heap[w.scene.doc].components[si]
        stack == hitTestComponentStack(w.heap, w.scene, mousePx.x, mousePx.y)
        samePoint == /\ e.selectionPoint.set
                     /\ e.selectionPoint.x = mousePx.x
                     /\ e.selectionPoint.y = mousePx.y
        sameStack == samePoint /\ stack = e.selectionStack
        index == IF ~sameStack THEN 0 ELSE (e.selectionIndex + 1) % Len(stack)
        dx == mousePx.x - e.drag.startMousePx.x
        dy == mousePx.y - e.drag.startMousePx.y
        resized == resizeRect(e.drag.startRect, e.drag.edge, dx, dy,
                              [minW |-> MIN_W_PX, minH |-> MIN_H_PX,
                               maxW |-> widthPx(w.scene), maxH |-> heightPx(w.scene)])
        moved == clampMoveRect(Rect(e.drag.startRect.x + dx, e.drag.startRect.y + dy,
                                    e.drag.startRect.w, e.drag.startRect.h),
                               widthPx(w.scene), heightPx(w.scene))
        updated == updateComponentRect(w.heap, w.scene, e.drag.componentId,
                                       IF e.drag.kind = "resize" THEN resized ELSE moved)
    IN  IF ev.yCell > DESIGN_HEIGHT THEN Done(w)
        ELSE IF ev.xCell < 1 \/ ev.yCell < 1 THEN Done(w)
        ELSE IF e.pendingAction.kind # NULL /\ pending.handled THEN Done(pending.world)
        ELSE IF ev.kind = "down"
        THEN IF ev.button # 0 THEN Done(w)
             ELSE IF hit.componentId = NULL
             THEN IF /\ si # 0
                     /\ selectedComp.layerId = w.scene.activeLayerId
                     /\ ~Locked(selectedComp.meta)
                     /\ isPointInRect(mousePx, selectedComp.rect)
                  THEN Done([w EXCEPT !.ed.drag =
                                [kind |-> "move", componentId |-> selectedComp.id,
                                 edge |-> NULL, startMousePx |-> mousePx,
                                 startRect |-> selectedComp.rect]])
                  ELSE IF ~isPointInCanvas(mousePx, w.scene) THEN Done(w)
                  ELSE IF Len(stack) = 0 THEN Done(clearSelection(w))
                  ELSE Done([w EXCEPT !.ed.selectionIndex = index,
                                      !.ed.selectionPoint = SomePoint(mousePx.x, mousePx.y),
                                      !.ed.selectionStack = stack,
                                      !.ed.selectedComponentId = stack[index + 1]])
             ELSE Done([w EXCEPT !.ed.drag =
                           [kind |-> "resize", componentId |-> hit.componentId,
                            edge |-> hit.edge, startMousePx |-> mousePx,
                            startRect |-> hit.rect]])
        ELSE IF ev.kind = "up"
        THEN Done([w EXCEPT !.ed.drag = NoDrag])
        ELSE IF ev.kind = "move"
        THEN IF e.drag.kind = NULL THEN Done(w)
             ELSE IF updated.ok THEN Done(AfterCall(w, updated))
             ELSE Thrown(AfterCall(w, updated))
        ELSE Done(w)

\* the line listener
line(w, text) ==
    LET e == w.ed
        w1 == [w EXCEPT !.ed.pendingAction = NoPending]
        ran == runCommandLine(w1, text.command)
    IN  IF e.metaEdit.componentId # NULL /\ e.metaEditError /\ e.errorMessage # NULL
        THEN Done([w EXCEPT !.ed.errorMessage = NULL, !.ed.metaEditError = FALSE])
        ELSE IF e.metaEdit.componentId # NULL THEN Done(handleMetaEditSubmit(w, text))
        ELSE IF text.kind \in {"empty", "colon"} THEN Done(clearStatusMessages(w))
        ELSE IF text.kind # "command" THEN Done(w)
        ELSE IF ran.threw THEN Done(showError(ran.world, ErrorText))
        ELSE Done(ran.world)

(***************************************************************************)
(* The Scene API driven by an arbitrary caller                             *)
(***************************************************************************)
LayerNames == {"a", "b"}

\* rects inside the 4x4 px canvas, and rects addBox has to reject: negative x,
\* w = 0, x + w beyond the width, y + h beyond the height
InsideRects == {Rect(0, 0, 4, 4), Rect(1, 1, 2, 2)}
OutsideRects == {Rect(-1, 0, 2, 2), Rect(0, 0, 0, 1), Rect(3, 0, 2, 1), Rect(0, 3, 1, 2)}

ExplicitIds == {"c1", "frameBox"}

AddBoxOpts ==
    [layerId : {UNDEFINED} \cup LayerNames,
     rect : InsideRects \cup OutsideRects,
     id : {UNDEFINED} \cup ExplicitIds,
     meta : {MetaUndefined}]

UpdateRects == InsideRects \cup {Rect(-1, 0, 2, 2)}

Layer(id, visible) == [id |-> id, name |-> id, visible |-> visible]
Box(id, layerId, rect) ==
    [id |-> id, type |-> "box", layerId |-> layerId, rect |-> rect, meta |-> MetaAbsent]
Doc(layers, components, nextId) ==
    [NewDoc(CanvasWidthCells, CanvasHeightCells) EXCEPT
        !.layers = layers, !.components = components, !.state.nextId = nextId]

\* documents validateSceneDoc accepts
ValidDocs ==
    { Doc(<< >>, << >>, 1),
      Doc(<<Layer("a", TRUE)>>, <<Box("c1", "a", Rect(0, 0, 4, 4))>>, 2),
      Doc(<<Layer("a", TRUE)>>, <<Box("c1", "a", Rect(1, 1, 2, 2))>>, 1),
      Doc(<<Layer("b", TRUE), Layer("a", FALSE)>>,
          <<Box("frameBox", "b", Rect(0, 0, 4, 4)),
            [Box("c2", "a", Rect(3, 0, 2, 1)) EXCEPT
                !.type = "image", !.meta = MetaObject({<<"locked", "true">>})]>>,
          1) }

\* documents validateSceneDoc rejects, one for each of its checks
InvalidDocs ==
    { [Doc(<< >>, << >>, 1) EXCEPT !.schemaVersion = 2],
      [Doc(<< >>, << >>, 1) EXCEPT !.units = "cells"],
      Doc(<<[Layer("a", TRUE) EXCEPT !.name = "b"]>>, << >>, 1),
      Doc(<<Layer("a", TRUE), Layer("a", TRUE)>>, << >>, 1),
      Doc(<<Layer("a", TRUE)>>,
          <<Box("c1", "a", Rect(0, 0, 4, 4)), Box("c1", "a", Rect(1, 1, 2, 2))>>, 2),
      Doc(<<Layer("a", TRUE)>>,
          <<[Box("c1", "a", Rect(0, 0, 4, 4)) EXCEPT !.type = "text"]>>, 2),
      Doc(<<Layer("a", TRUE)>>, <<Box("c1", "b", Rect(0, 0, 4, 4))>>, 2),
      Doc(<<Layer("a", TRUE)>>, <<Box("c1", "a", Rect(0, 0, 0, 1))>>, 2),
      Doc(<<Layer("a", TRUE)>>, <<Box("c1", "a", Rect(0, 0, 4, 4))>>, 0) }

CandidateDocs == ValidDocs \cup InvalidDocs

SceneDoc == heap[scene.doc]

TheWorld == World(heap, scene, ed)

\* undo tells whether the step pushed or popped an undo entry, streak counts the
\* pops in a row, drags counts the steps in which a mouse drag changed a rect
Last(op, ok, undo, streak, drags) ==
    [op |-> op, ok |-> ok, undo |-> undo, streak |-> streak, drags |-> drags]

\* the caller holds no document of a conversion, no rect object and no frame
NoCaller ==
    [phase |-> "none",
     doc |-> NewDoc(1, 1),
     compact |-> NoCompact,
     out |-> [ok |-> FALSE, doc |-> NewDoc(1, 1), warnings |-> << >>],
     rect |-> Rect(0, 0, 0, 0),
     rectId |-> NULL,
     sharedWith |-> NULL,
     overlay |-> NoOverlay,
     frame |-> << >>]

Init ==
    /\ heap = (1 :> NewDoc(CanvasWidthCells, CanvasHeightCells))
    /\ scene = NewScene(1, CanvasWidthCells, CanvasHeightCells)
    /\ held = NoRef
    /\ ed = EdInit
    /\ hist = << >>
    /\ caller = NoCaller
    /\ last = Last("new", TRUE, "none", 0, 0)

\* the variables after a step that ends in world w with the caller holding hd
Commit(w, hd) ==
    /\ heap' = CanonHeap(w.heap, w.scene, hd, w.ed.undoStack)
    /\ scene' = CanonScene(w.heap, w.scene, hd, w.ed.undoStack)
    /\ held' = CanonHeld(w.heap, w.scene, hd, w.ed.undoStack)
    /\ ed' = [w.ed EXCEPT !.undoStack = CanonUndo(w.heap, w.scene, hd, w.ed.undoStack)]

\* the caller calls a method of the scene: res is the method's result
Call(op, res) ==
    /\ Commit(AfterCall(TheWorld, res), held)
    /\ last' = Last(op, res.ok, "none", 0, 0)
    /\ UNCHANGED <<hist, caller>>

AddLayer(name) == Call("addLayer", addLayer(heap, scene, name))

SetActiveLayer(name) == Call("setActiveLayer", setActiveLayer(heap, scene, name))

CycleActiveLayer(direction) ==
    Call("cycleActiveLayer", cycleActiveLayer(heap, scene, direction))

AddBox(opts) ==
    /\ Len(SceneDoc.components) < MaxComponents
    /\ Call("addBox", addBox(heap, scene, opts))

UpdateBoxRect(id, rect) == Call("updateBoxRect", updateBoxRect(heap, scene, id, rect))

\* scene = Scene.fromDoc(d) for a document d the caller has built; a throw
\* leaves the caller's scene variable as it was
FromDoc(d) ==
    LET arg == FreshRef(heap)
        res == fromDoc(heap @@ (arg :> d), arg)
    IN  /\ Commit(IF res.ok THEN AfterCall(TheWorld, res) ELSE TheWorld, held)
        /\ last' = Last("fromDoc", res.ok, "none", 0, 0)
        /\ UNCHANGED <<hist, caller>>

\* held = scene.toDoc()
ToDoc ==
    LET res == toDoc(heap, scene)
    IN  /\ Commit([TheWorld EXCEPT !.heap = res.heap], res.ref)
        /\ last' = Last("toDoc", TRUE, "none", 0, 0)
        /\ UNCHANGED <<hist, caller>>

\* scene = Scene.fromDoc(held)
FromDocHeld ==
    /\ held # NoRef
    /\ LET res == fromDoc(heap, held)
       IN  /\ Commit(IF res.ok THEN AfterCall(TheWorld, res) ELSE TheWorld, held)
           /\ last' = Last("fromDoc", res.ok, "none", 0, 0)
           /\ UNCHANGED <<hist, caller>>

ComponentIds == Range(Ids(SceneDoc.components))

\* a new Scene driven through its mutating methods only
BuildNext ==
    \/ \E name \in LayerNames : AddLayer(name)
    \/ \E name \in LayerNames : SetActiveLayer(name)
    \/ \E direction \in {1, -1} : CycleActiveLayer(direction)
    \/ \E opts \in AddBoxOpts : AddBox(opts)
    \/ \E id \in ComponentIds \cup {"nope"}, rect \in UpdateRects : UpdateBoxRect(id, rect)

BuildSpec == Init /\ [][BuildNext]_vars

\* ... and through Scene.fromDoc on documents built by the caller
Next ==
    \/ BuildNext
    \/ \E d \in CandidateDocs : FromDoc(d)

Spec == Init /\ [][Next]_vars

\* a caller that also takes snapshots with toDoc and restores them with fromDoc
\* (what the editor's undo does), on fewer inputs
SnapshotOpts ==
    [layerId : {UNDEFINED}, rect : {Rect(0, 0, 4, 4)}, id : {UNDEFINED, "c1"},
     meta : {MetaUndefined}]

SnapshotDocs ==
    { Doc(<<Layer("b", TRUE)>>, <<Box("c2", "b", Rect(0, 0, 4, 4))>>, 1),
      Doc(<<Layer("a", TRUE)>>,
          <<Box("c1", "a", Rect(0, 0, 4, 4)), Box("c1", "a", Rect(1, 1, 2, 2))>>, 2) }

SnapshotNext ==
    \/ \E name \in LayerNames : AddLayer(name)
    \/ \E opts \in SnapshotOpts : AddBox(opts)
    \/ \E id \in ComponentIds, rect \in {Rect(1, 1, 2, 2)} : UpdateBoxRect(id, rect)
    \/ \E d \in SnapshotDocs : FromDoc(d)
    \/ ToDoc
    \/ FromDocHeld

SnapshotSpec == Init /\ [][SnapshotNext]_vars

\* a Scene of 80 x 24 cells, 160 x 96 px, on which boxes are added at and
\* beyond the edges of the canvas
BoundsLayers == {"frame", "a"}

BoundsRects ==
    { Rect(8, 8, 143, 79), Rect(8, 8, 200, 10),
      Rect(0, 0, 160, 96), Rect(0, 0, 161, 96), Rect(0, 0, 160, 97),
      Rect(159, 95, 1, 1), Rect(159, 95, 2, 1), Rect(159, 95, 1, 2),
      Rect(0, 0, 0, 1), Rect(0, 0, 1, 0), Rect(-1, 0, 2, 2), Rect(0, -1, 2, 2),
      Rect(NaN, 0, 1, 1), Rect(0, 0, 1, NaN) }

BoundsOpts ==
    [layerId : {UNDEFINED, "frame"},
     rect : BoundsRects,
     id : {UNDEFINED, "frameBox"},
     meta : {MetaUndefined}]

BoundsInit ==
    /\ heap = (1 :> NewDoc(80, 24))
    /\ scene = NewScene(1, 80, 24)
    /\ held = NoRef
    /\ ed = EdInit
    /\ hist = << >>
    /\ caller = NoCaller
    /\ last = Last("new", TRUE, "none", 0, 0)

BoundsNext ==
    \/ \E name \in BoundsLayers : AddLayer(name)
    \/ \E opts \in BoundsOpts : AddBox(opts)

BoundsSpec == BoundsInit /\ [][BoundsNext]_vars

\* the same Scene with up to three layers, the active layer moved with
\* cycleActiveLayer, and boxes added on the active layer
CycleLayers == {"frame", "a", "b"}

CycleOpts ==
    [layerId : {UNDEFINED}, rect : {Rect(8, 8, 143, 79)}, id : {UNDEFINED},
     meta : {MetaUndefined}]

CycleNext ==
    \/ \E name \in CycleLayers : AddLayer(name)
    \/ \E direction \in {1, -1} : CycleActiveLayer(direction)
    \/ \E opts \in CycleOpts : AddBox(opts)

CycleSpec == BoundsInit /\ [][CycleNext]_vars

\* a caller that keeps the rect object it passed to updateBoxRect and writes to
\* it afterwards
RectOpts ==
    [layerId : {UNDEFINED}, rect : {Rect(0, 0, 4, 4)}, id : {UNDEFINED, "frameBox"},
     meta : {MetaUndefined}]

\* scene.updateBoxRect(id, rect) with rect an object the caller has just made
UpdateBoxRectKeeping(id, rect) ==
    LET res == updateBoxRect(heap, scene, id, rect)
    IN  /\ Commit(AfterCall(TheWorld, res), held)
        /\ last' = Last("updateBoxRect", res.ok, "none", 0, 0)
        /\ caller' = IF res.ok
                     THEN [caller EXCEPT !.rect = rect, !.rectId = id,
                                         !.sharedWith = res.sharesRect]
                     ELSE caller
        /\ UNCHANGED hist

\* rect.x = x on the object the caller kept: a component whose rect property is
\* that object changes with it
CallerWritesRect(x) ==
    LET written == [caller.rect EXCEPT !.x = x]
        i == getComponentById(heap, scene, caller.sharedWith)
    IN  /\ caller.rectId # NULL
        /\ x # caller.rect.x
        /\ caller' = [caller EXCEPT !.rect = written]
        /\ heap' = IF caller.sharedWith # NULL /\ i # 0
                   THEN [heap EXCEPT ![scene.doc].components[i].rect = written]
                   ELSE heap
        /\ last' = Last("writeRect", TRUE, "none", 0, 0)
        /\ UNCHANGED <<scene, held, ed, hist>>

RectNext ==
    \/ \E name \in LayerNames : AddLayer(name)
    \/ \E opts \in RectOpts : AddBox(opts)
    \/ \E id \in ComponentIds \cup {"nope"}, rect \in UpdateRects : UpdateBoxRectKeeping(id, rect)
    \/ \E x \in {0, 1} : CallerWritesRect(x)

RectSpec == Init /\ [][RectNext]_vars

\* A scene loaded from a document and rendered: the canvas of these documents
RenderWidthCells == 2
RenderHeightCells == 2

RenderLayers ==
    { <<Layer("a", TRUE), Layer("b", TRUE)>>,
      <<Layer("a", TRUE), Layer("b", FALSE)>>,
      <<Layer("a", FALSE), Layer("b", TRUE)>> }

\* boxes inside the canvas that share cells, boxes partly and wholly outside,
\* an image, boxes whose coordinates are no integers, and a box inside
\* another box of its layer
RenderComponents ==
    { <<Box("c1", "a", Rect(0, 0, 4, 4)), Box("c2", "b", Rect(1, 1, 2, 6))>>,
      <<Box("c1", "a", Rect(-1, -1, 3, 3)),
        [Box("c2", "b", Rect(0, 0, 2, 2)) EXCEPT !.type = "image"]>>,
      <<Box("c1", "b", Rect(2, 4, 2, 4)), Box("c2", "a", Rect(100, 100, 7, 7))>>,
      <<Box("c1", "b", Rect(0, 0, 2, 2)), Box("c2", "a", Rect(Half(0), 0, 2, 2))>>,
      <<Box("c1", "b", Rect(1, 0, 1, 1)), Box("c2", "a", Rect(0, Half(0), 2, 2))>>,
      <<Box("c1", "a", Rect(0, Half(-3), 1, 1))>>,
      <<Box("c1", "a", Rect(0, 0, 4, 8)), Box("c2", "a", Rect(1, 1, 2, 2))>> }

RenderDocs ==
    { [Doc(layers, components, 3) EXCEPT
          !.size = [widthCells |-> RenderWidthCells, heightCells |-> RenderHeightCells]] :
        layers \in RenderLayers, components \in RenderComponents }

RenderOverlays ==
    { OverlayRect(Rect(-3, -3, 20, 20), UNDEFINED),
      OverlayRect(Rect(0, 1, 2, 2), "ESC[38;5;33m"),
      OverlayRect(Rect(Half(0), 0, 3, 3), UNDEFINED),
      OverlayRect(Rect(0, Half(0), 2, 2), UNDEFINED) }

RenderRects == {Rect(3, 7, 5, 5)}

\* scene = Scene.fromDoc(d) for a document d of RenderDocs
RenderInit ==
    /\ held = NoRef
    /\ ed = EdInit
    /\ hist = << >>
    /\ caller = NoCaller
    /\ last = Last("fromDoc", TRUE, "none", 0, 0)
    /\ \E d \in RenderDocs :
          LET res == fromDoc((1 :> d), 1)
          IN  /\ heap = (1 :> res.heap[res.scene.doc])
              /\ scene = [res.scene EXCEPT !.doc = 1]

\* frame = scene.render(overlay); a throw leaves the caller's frame as it was.
\* The step is named render without an overlay and renderOverlay with one, and
\* streak is 2 when the step before was a render without an overlay too.
RenderResult(overlay, res) ==
    /\ scene' = res.scene
    /\ caller' = [caller EXCEPT !.overlay = overlay,
                                !.frame = IF res.threw THEN @ ELSE res.out]
    /\ last' = Last(IF overlay.given THEN "renderOverlay" ELSE "render", ~res.threw,
                    "none", IF last.op = "render" THEN 2 ELSE 1, 0)
    /\ UNCHANGED <<heap, held, ed, hist>>

Render(overlay) == RenderResult(overlay, render(heap, scene, overlay))

RenderNext ==
    \/ \E name \in LayerNames : SetActiveLayer(name)
    \/ \E rect \in RenderRects : UpdateBoxRect("c1", rect)
    \/ Render(NoOverlay)
    \/ \E overlay \in RenderOverlays : Render(overlay)

RenderSpec == RenderInit /\ [][RenderNext]_vars

\* A scene whose caller sets single pixels: the canvas, the pixels the caller
\* names (inside the canvas, left of it, above it, right of it, below it, and
\* between two columns or two rows) and the number of bits set after which
\* the caller stops
PixelWidthCells == 3
PixelHeightCells == 2
MaxPixels == 1

PixelXs == {-1, 0, 1, 5, 6, Half(0)}
PixelYs == {-4, 0, 5, 8, Half(1)}

PixelDocs ==
    { [Doc(layers, << >>, 1) EXCEPT
          !.size = [widthCells |-> PixelWidthCells, heightCells |-> PixelHeightCells]] :
        layers \in {<< >>, <<Layer("a", TRUE), Layer("b", TRUE)>>} }

PixelInit ==
    /\ held = NoRef
    /\ ed = EdInit
    /\ hist = << >>
    /\ caller = NoCaller
    /\ last = Last("fromDoc", TRUE, "none", 0, 0)
    /\ \E d \in PixelDocs :
          LET res == fromDoc((1 :> d), 1)
          IN  /\ heap = (1 :> res.heap[res.scene.doc])
              /\ scene = [res.scene EXCEPT !.doc = 1]

\* the bits set in the buffers of a scene, each with its layer
BitsSet(s) == UNION {{<<i, bit>> : bit \in s.layers[i].buffer} : i \in DOMAIN s.layers}

\* what setPixel does for the layer the activeLayer getter finds; the getter
\* throws when no layer has the id
PixelResult(x, y, i, res) ==
    /\ scene' = IF res.kind = "set"
                THEN [scene EXCEPT !.layers[i].buffer = @ \cup {<<res.index, res.mask>>}]
                ELSE scene
    /\ caller' = [caller EXCEPT !.rect = Rect(x, y, 0, 0)]
    /\ last' = Last("setPixel", res.kind # "throw", "none", 0, 0)
    /\ UNCHANGED <<heap, held, ed, hist>>

\* scene.setPixel(x, y)
SetPixel(x, y) ==
    /\ Cardinality(BitsSet(scene)) <= MaxPixels
    /\ \E i \in {FindIndex(scene.layers, scene.activeLayerId)} :
          PixelResult(x, y, i, IF i = 0 THEN PixelThrow ELSE setPixel(scene.layers[i], x, y))

PixelNext ==
    \/ \E name \in LayerNames : SetActiveLayer(name)
    \/ \E x \in PixelXs, y \in PixelYs : SetPixel(x, y)

PixelSpec == PixelInit /\ [][PixelNext]_vars

\* validateSceneDoc and Scene.fromDoc on documents the caller has built: every
\* combination of a schemaVersion, a units string, a list of layers, a list
\* of components and a state.nextId
ValidateLayers ==
    { << >>,
      <<Layer("a", TRUE)>>,
      <<Layer("a", TRUE), Layer("b", FALSE)>>,
      <<Layer("a", TRUE), Layer("a", TRUE)>>,
      <<[Layer("a", TRUE) EXCEPT !.name = "b"]>> }

ValidateComponents ==
    { << >>,
      <<Box("c1", "a", Rect(0, 0, 4, 4))>>,
      <<Box("c1", "a", Rect(0, 0, 4, 4)), Box("c1", "a", Rect(1, 1, 2, 2))>>,
      <<[Box("c1", "a", Rect(0, 0, 4, 4)) EXCEPT !.type = "text"]>>,
      <<Box("c1", "z", Rect(0, 0, 4, 4))>>,
      <<Box("c1", "a", Rect(0, 0, 0, 1))>>,
      <<Box("c1", "a", Rect(0, 0, 1, Half(0)))>>,
      <<Box("c1", "a", Rect(NaN, 0, 1, 1))>>,
      <<Box("c1", "a", Rect(0, 0, 1, NaN))>>,
      <<Box("c1", "a", Rect(Half(-1), -3, Half(1), 1))>>,
      <<[Box("c1", "a", Rect(3, 0, 2, 1)) EXCEPT !.type = "image"],
        Box("c2", "a", Rect(100, 100, 7, 7))>> }

ValidateDocs ==
    { [Doc(layers, components, nextId) EXCEPT !.schemaVersion = version, !.units = units] :
        layers \in ValidateLayers, components \in ValidateComponents,
        nextId \in {0, 1, 5, NaN, Half(0), Half(1)}, version \in {1, 2},
        units \in {"px", "cells"} }

\* the caller holds a document it has built and remembers what it has built
ValidateInit ==
    /\ scene = NewScene(1, CanvasWidthCells, CanvasHeightCells)
    /\ held = 2
    /\ ed = EdInit
    /\ hist = << >>
    /\ last = Last("new", TRUE, "none", 0, 0)
    /\ \E d \in ValidateDocs :
          /\ heap = (1 :> NewDoc(CanvasWidthCells, CanvasHeightCells)) @@ (2 :> d)
          /\ caller = [NoCaller EXCEPT !.doc = d]

\* validateSceneDoc(held): it returns or throws, and assigns nothing
ValidateHeld ==
    /\ held # NoRef
    /\ last' = Last("validateSceneDoc", validateSceneDoc(heap[held]), "none", 0, 0)
    /\ UNCHANGED <<heap, scene, held, ed, hist, caller>>

ValidateNext ==
    \/ ValidateHeld
    \/ FromDocHeld

ValidateSpec == ValidateInit /\ [][ValidateNext]_vars

\* components added and removed by id; "nonexistent" is an id no component has
RemoveOpts ==
    [layerId : {UNDEFINED}, rect : {Rect(0, 0, 4, 4), Rect(1, 1, 2, 2)},
     id : {UNDEFINED, "frameBox"}, meta : {MetaUndefined}]

RemoveIds == {"c1", "c2", "frameBox", "nonexistent"}

\* scene.removeComponent(id); the step is named after whether the id was there
RemoveComponent(id) ==
    LET res == removeComponent(heap, scene, id)
    IN  /\ Commit(AfterCall(TheWorld, res), held)
        /\ last' = Last(IF id \in ComponentIds THEN "removeComponent" ELSE "removeAbsent",
                        res.ok, "none", 0, 0)
        /\ UNCHANGED <<hist, caller>>

RemoveNext ==
    \/ \E name \in LayerNames : AddLayer(name)
    \/ \E opts \in RemoveOpts : AddBox(opts)
    \/ \E id \in RemoveIds : RemoveComponent(id)

RemoveSpec == Init /\ [][RemoveNext]_vars

(***************************************************************************)
(* The editor (index.ts) driven by lines, keys and mouse events            *)
(***************************************************************************)
\* handlers that would make the undo stack longer than this are not run
MaxUndo == 2
\* mouse moves that drag a component are not handled after this many
MaxDrags == 2

\* the scene index.ts builds before the first event
EditorScene ==
    LET s0 == NewScene(1, TERM_WIDTH, DESIGN_HEIGHT)
        h0 == (1 :> NewDoc(TERM_WIDTH, DESIGN_HEIGHT))
        framed == addLayer(h0, s0, "frame")
        boxX == 2 * 2
        boxY == 2 * 4
        boxWidth == Max(20 * 2, widthPx(s0) - boxX * 2)
        boxHeight == Max(5 * 4, heightPx(s0) - boxY * 2)
        boxed == addBox(framed.heap, framed.scene,
                        [id |-> "frameBox", layerId |-> "frame", meta |-> MetaUndefined,
                         rect |-> Rect(boxX, boxY, boxWidth, boxHeight)])
    IN  addLayer(boxed.heap, boxed.scene, "components")

EditorInit ==
    /\ heap = EditorScene.heap
    /\ scene = EditorScene.scene
    /\ held = NoRef
    /\ ed = EdInit
    /\ hist = << >>
    /\ caller = NoCaller
    /\ last = Last("start", TRUE, "none", 0, 0)

\* SceneDocs compared field by field: a property that holds undefined and a
\* property that is absent both read as undefined
SameFields(d1, d2) == JsonClone(d1) = JsonClone(d2)

\* a handler ran with outcome res; an exception that leaves a handler ends the
\* process.  hist follows the undo stack: the document and active layer the
\* handler started from are recorded when the handler pushes an entry.
Event(op, res) ==
    LET w == [res.world EXCEPT !.ed.exited = @ \/ res.threw]
        before == Len(ed.undoStack)
        after == Len(w.ed.undoStack)
        undo == IF after > before THEN "push" ELSE IF after < before THEN "pop" ELSE "none"
        drags == IF op = "mouse" /\ undo = "none" /\ w.heap[w.scene.doc] # SceneDoc
                 THEN last.drags + 1 ELSE last.drags
    IN  /\ ~ed.exited
        /\ after <= MaxUndo
        /\ drags <= MaxDrags
        /\ Commit(w, held)
        /\ hist' = CASE undo = "push" ->
                            Append(hist, [doc |-> SceneDoc,
                                          activeLayerId |-> scene.activeLayerId])
                     [] undo = "pop" -> SubSeq(hist, 1, Len(hist) - 1)
                     [] OTHER -> hist
        /\ last' = Last(op, ~res.threw, undo,
                        IF undo = "pop" THEN last.streak + 1 ELSE 0, drags)
        /\ UNCHANGED caller

LineEvent(text) == Event("line", line(TheWorld, text))

KeyEvent(key, colonMode) == Event("key", keypress(TheWorld, key, colonMode))

MouseEventHandled(ev) == Event("mouse", mouse(TheWorld, ev))

LayerAddLine == CommandLine("layer", <<Identifier("add"), Identifier("a")>>, {})
LoadLine(filename) == CommandLine("e", <<Identifier(filename)>>, {})
MetaLine == CommandLine("meta", << >>, {})

UndoKey == Key("u", "u", FALSE)
DeleteKey == Key("x", "x", FALSE)
Escape == Key("escape", "<esc>", FALSE)

\* an editing session at the keyboard: command lines, the meta editor, the
\* shortcuts, clicks that select the box at cell (7, 3)
CommandLines == {LayerAddLine, AddBoxLine(Rect(8, 4, 16, 12)), LoadLine("f"), MetaLine}

TextLines ==
    {TextLine("empty"), JsonText(MetaObject({<<"locked", "true">>}))}
        \cup {CommandText(c) : c \in CommandLines}

Keys == {UndoKey, DeleteKey, Escape}

MouseEvents == {MouseEvent(kind, 0, 7, 3) : kind \in {"down", "up"}}

EditorNext ==
    \/ \E text \in TextLines : LineEvent(text)
    \/ \E key \in Keys, colonMode \in BOOLEAN : KeyEvent(key, colonMode)
    \/ \E ev \in MouseEvents : MouseEventHandled(ev)

EditorSpec == EditorInit /\ [][EditorNext]_vars

\* a session with the mouse: boxes are added by a command line or drawn with
\* the mouse after `:add box`, selected, and dragged by an edge or by their inside
DragLines ==
    { CommandText(AddBoxLine(Rect(8, 4, 16, 12))),
      CommandText(CommandLine("add", <<Identifier("box")>>, {})) }

DragKeys == {Escape}

DragMouseEvents ==
    {MouseEvent(kind, 0, cell[1], cell[2]) :
        kind \in {"down", "up", "move"}, cell \in {<<5, 2>>, <<7, 3>>}}

DragNext ==
    \/ \E text \in DragLines : LineEvent(text)
    \/ \E key \in DragKeys, colonMode \in BOOLEAN : KeyEvent(key, colonMode)
    \/ \E ev \in DragMouseEvents : MouseEventHandled(ev)

DragSpec == EditorInit /\ [][DragNext]_vars

\* a session in which boxes are only drawn with the mouse after `:add box`
PendingMouseEvents ==
    { MouseEvent("down", 0, 5, 2), MouseEvent("down", 2, 5, 2), MouseEvent("move", 0, 7, 3),
      MouseEvent("up", 0, 7, 3), MouseEvent("up", 0, 5, 2) }

PendingNext ==
    \/ LineEvent(CommandText(CommandLine("add", <<Identifier("box")>>, {})))
    \/ \E colonMode \in BOOLEAN : KeyEvent(Escape, colonMode)
    \/ \E ev \in PendingMouseEvents : MouseEventHandled(ev)

PendingSpec == EditorInit /\ [][PendingNext]_vars

\* a session in which a box is added or loaded from a file, selected, locked in
\* the meta editor, dragged by an edge or by its inside, deleted and brought back
LockLines ==
    { CommandText(AddBoxLine(Rect(8, 4, 16, 12))),
      CommandText(MetaLine),
      JsonText(MetaObject({<<"locked", "true">>})),
      CommandText(LoadLine("locked")) }

\* the disk holds a file with a locked box
LockFiles ==
    ("locked" :> FileJson([InitialFiles["f"].value EXCEPT
                              !.nodes = <<CompactNode("box", "c2", "base", <<8, 4, 16, 12>>,
                                                      MetaObject({<<"locked", "true">>}))>>]))
        @@ InitialFiles

LockInit ==
    /\ heap = EditorScene.heap
    /\ scene = EditorScene.scene
    /\ held = NoRef
    /\ ed = [EdInit EXCEPT !.files = LockFiles]
    /\ hist = << >>
    /\ caller = NoCaller
    /\ last = Last("start", TRUE, "none", 0, 0)

LockKeys == {DeleteKey, UndoKey}

LockNext ==
    \/ \E text \in LockLines : LineEvent(text)
    \/ \E key \in LockKeys : KeyEvent(key, FALSE)
    \/ \E ev \in DragMouseEvents : MouseEventHandled(ev)

LockSpec == LockInit /\ [][LockNext]_vars

\* a session in which boxes are drawn with the mouse after `:add box` and the
\* active layer is changed with Ctrl-N and Ctrl-P
LayerKeys == {Key("n", "^N", TRUE), Key("p", "^P", TRUE)}

LayerKeysNext ==
    \/ LineEvent(CommandText(CommandLine("add", <<Identifier("box")>>, {})))
    \/ \E key \in LayerKeys : KeyEvent(key, FALSE)
    \/ \E ev \in PendingMouseEvents : MouseEventHandled(ev)

LayerKeysSpec == EditorInit /\ [][LayerKeysNext]_vars

\* a session with the mouse in an editor started on a file that holds a box
\* in the middle of the canvas and a box of one pixel in its lower right
\* corner: the boxes are dragged by an edge or by their inside to the upper
\* left corner of the canvas and beyond its lower right corner
ClampCells ==
    {<<1, 1>>, <<5, 2>>, <<7, 3>>, <<12, 3>>, <<TERM_WIDTH, DESIGN_HEIGHT>>,
     <<TERM_WIDTH + 2, DESIGN_HEIGHT>>}

ClampFile ==
    [InitialFiles["f"].value EXCEPT
        !.w = TERM_WIDTH * 2,
        !.h = DESIGN_HEIGHT * 4,
        !.nodes = <<CompactNode("box", "c1", "base", <<8, 4, 16, 12>>, MetaAbsent),
                    CompactNode("box", "c2", "base",
                                <<TERM_WIDTH * 2 - 1, DESIGN_HEIGHT * 4 - 1, 1, 1>>,
                                MetaAbsent)>>]

ClampMouseEvents ==
    {MouseEvent(kind, 0, cell[1], cell[2]) : kind \in {"down", "up", "move"}, cell \in ClampCells}

\* loadCompactDoc(initialFilename) before the first event
ClampInit ==
    /\ held = NoRef
    /\ hist = << >>
    /\ caller = NoCaller
    /\ last = Last("start", TRUE, "none", 0, 0)
    /\ \E loaded \in {loadCompactDoc([heap |-> EditorScene.heap, scene |-> EditorScene.scene,
                                      ed |-> [EdInit EXCEPT
                                                 !.files = ("corner" :> FileJson(ClampFile))]],
                                     "corner").world} :
          /\ heap = (1 :> loaded.heap[loaded.scene.doc])
          /\ scene = [loaded.scene EXCEPT !.doc = 1]
          /\ ed = loaded.ed

ClampNext == \E ev \in ClampMouseEvents : MouseEventHandled(ev)

ClampSpec == ClampInit /\ [][ClampNext]_vars

\* The decoder fed with a stream of characters in chunks: the stream is made
\* of up to MaxPieces pieces, each a mouse sequence, a sequence that parses to
\* no event, a sequence without its end, or what a key sends
MaxPieces == 2

MousePieces ==
    { <<ESC, "[", "<", "0", ";", "5", ";", "2", "M">>,
      <<ESC, "[", "<", "0", ";", "7", ";", "3", "m">>,
      <<ESC, "[", "<", "3", "2", ";", "7", ";", "3", "M">>,
      <<ESC, "[", "<", "0", ";", "5", "M">>,
      <<ESC, "[", "<", "a", ";", "1", ";", "1", "M">>,
      <<ESC, "[", "<", "1">>,
      <<ESC, "[", "A">>,
      <<ESC>>,
      <<"a">> }

RECURSIVE Streams(_)
Streams(n) ==
    IF n = 0 THEN {<< >>}
    ELSE LET shorter == Streams(n - 1)
         IN  shorter \cup {stream \o piece : stream \in shorter, piece \in MousePieces}

NewDecoder == [buffer |-> << >>, forwarded |-> << >>, emitted |-> << >>]

\* what stdin will deliver, what it has delivered in chunks so far, the
\* decoder, and whether a chunk has ended inside the "\x1b[<" of the stream
DecodeInit ==
    /\ heap = EditorScene.heap
    /\ scene = EditorScene.scene
    /\ held = NoRef
    /\ ed = EdInit
    /\ hist = << >>
    /\ last = Last("start", TRUE, "none", 0, 0)
    /\ \E stream \in Streams(MaxPieces) :
          caller = [stream |-> stream, delivered |-> 0, cutInPrefix |-> FALSE,
                    decoder |-> NewDecoder]

\* a chunk ends after position at, inside a "\x1b[<" of the stream
CutsPrefix(stream, at) ==
    \E i \in {at - 1, at} : i >= 1 /\ StartsWith(stream, MousePrefix, i)

\* stdin delivers the next n characters of the stream as one chunk
HandleData(n) ==
    /\ n \in 1..(Len(caller.stream) - caller.delivered)
    /\ caller' = [caller EXCEPT
          !.delivered = @ + n,
          !.cutInPrefix = @ \/ (/\ caller.delivered + n < Len(caller.stream)
                                /\ CutsPrefix(caller.stream, caller.delivered + n)),
          !.decoder = handleData(@, SubSeq(caller.stream, caller.delivered + 1,
                                           caller.delivered + n))]
    /\ last' = Last("data", TRUE, "none", 0, 0)
    /\ UNCHANGED <<heap, scene, held, ed, hist>>

DecodeNext == \E n \in 1..Len(caller.stream) : HandleData(n)

DecodeSpec == DecodeInit /\ [][DecodeNext]_vars

\* a session of load commands: the files f and bad, a file that is no JSON, a
\* JSON file with a duplicated node id, and a name with no file
LoadFiles ==
    ("junk" :> FileText)
        @@ ("dup" :> FileJson([InitialFiles["f"].value EXCEPT !.nodes[2].id = "c2"]))
        @@ InitialFiles

LoadNames == {"f", "bad", "junk", "dup", "none"}

LoadInit ==
    /\ heap = EditorScene.heap
    /\ scene = EditorScene.scene
    /\ held = NoRef
    /\ ed = [EdInit EXCEPT !.files = LoadFiles]
    /\ hist = << >>
    /\ caller = NoCaller
    /\ last = Last("start", TRUE, "none", 0, 0)

\* the line handler on `:e <filename>`
LoadEvent(filename) == Event("load", line(TheWorld, CommandText(LoadLine(filename))))

LoadNext ==
    \/ \E filename \in LoadNames : LoadEvent(filename)
    \/ \E c \in {LayerAddLine, AddBoxLine(Rect(8, 4, 16, 12))} : LineEvent(CommandText(c))
    \/ KeyEvent(UndoKey, FALSE)

LoadSpec == LoadInit /\ [][LoadNext]_vars

(***************************************************************************)
(* compactDoc.ts driven by a caller: a SceneDoc is converted to its compact *)
(* form and back, or a compact document read from a file is converted      *)
(***************************************************************************)
RoundTripLayers ==
    { << >>,
      <<Layer("a", TRUE)>>,
      <<Layer("a", FALSE)>>,
      <<Layer("a", TRUE), Layer("b", TRUE)>>,
      <<Layer("b", TRUE), Layer("a", FALSE)>> }

RoundTripMetas ==
    {MetaAbsent, MetaUndefined, MetaObject({}), MetaObject({<<"name", "Frame">>})}

\* the component lists tried on the layers: none, one box, a box and an image
RoundTripComponents(layers, meta) ==
    IF Len(layers) = 0 THEN { << >> }
    ELSE { << >>,
           <<[Box("c1", layers[1].id, Rect(0, 0, 4, 4)) EXCEPT !.meta = meta]>>,
           <<[Box("frameBox", layers[Len(layers)].id, Rect(1, 1, 2, 2)) EXCEPT !.meta = meta],
             [Box("c2", layers[1].id, Rect(0, 0, 2, 3)) EXCEPT !.type = "image"]>> }

\* documents validateSceneDoc accepts
RoundTripDocs ==
    { d \in { [Doc(layers, components, nextId) EXCEPT !.meta = docMeta] :
                layers \in RoundTripLayers,
                components \in UNION { RoundTripComponents(l, m) :
                                          l \in RoundTripLayers, m \in RoundTripMetas },
                nextId \in {1, 3},
                docMeta \in {MetaAbsent, MetaObject({<<"title", "Landing">>})} } :
        validateSceneDoc(d) }

\* a well-formed compact document with two layers and two nodes, the second of
\* the given type
CompactBase(type) ==
    [v |-> 1,
     w |-> CanvasWidthCells * 2,
     h |-> CanvasHeightCells * 4,
     layers |-> <<"a", "b">>,
     nodes |-> <<CompactNode("box", "c1", "a", <<0, 0, 2, 2>>, MetaAbsent),
                 CompactNode(type, "n2", "b", <<1, 1, 1, 1>>,
                             MetaObject({<<"name", "Frame">>}))>>,
     meta |-> MetaAbsent]

NodeTypes == {"box", "image", "text", "button", "widget"}

\* a well-formed compact document whose nodes alternate between the types that
\* become components and the others
CompactMixed ==
    [CompactBase("box") EXCEPT
        !.nodes = <<CompactNode("text", "t1", "a", <<0, 0, 1, 1>>, MetaAbsent),
                    CompactNode("image", "i1", "b", <<0, 0, 4, 4>>, MetaAbsent),
                    CompactNode("widget", "w1", "a", <<1, 1, 1, 1>>,
                                MetaObject({<<"name", "Frame">>})),
                    CompactNode("box", "c1", "a", <<1, 0, 2, 3>>, MetaObject({})),
                    CompactNode("button", "b1", "b", <<0, 0, 2, 2>>, MetaAbsent)>>]

\* the document with one field of the envelope changed
EnvelopeVariants(c) ==
    { [c EXCEPT !.v = 2],
      [c EXCEPT !.w = NaN], [c EXCEPT !.h = NaN],
      [c EXCEPT !.w = 0], [c EXCEPT !.h = 0],
      [c EXCEPT !.w = 3], [c EXCEPT !.h = 6],
      [c EXCEPT !.layers = <<"a", "b", "">>],
      [c EXCEPT !.layers = <<"a", "b", "a">>],
      [c EXCEPT !.layers = <<"a", "b", "#7">>],
      [c EXCEPT !.layers = <<"a">>],
      [c EXCEPT !.nodes = << >>],
      [c EXCEPT !.meta = MetaObject({})],
      [c EXCEPT !.meta = MetaObject({<<"title", "Landing">>})],
      [c EXCEPT !.meta = MetaNull],
      [c EXCEPT !.meta = MetaArray],
      [c EXCEPT !.meta = MetaFalsy],
      [c EXCEPT !.meta = MetaText] }

\* the document with one element of its second node changed
NodeVariants(c) ==
    { [c EXCEPT !.nodes[2].len = 3],
      [c EXCEPT !.nodes[2].len = 6],
      [c EXCEPT !.nodes[2].type = "#7"],
      [c EXCEPT !.nodes[2].id = ""],
      [c EXCEPT !.nodes[2].id = "#7"],
      [c EXCEPT !.nodes[2].id = "c1"],
      [c EXCEPT !.nodes[2].id = "c3"],
      [c EXCEPT !.nodes[2].layerId = "zz"],
      [c EXCEPT !.nodes[2].layerId = "#7"],
      [c EXCEPT !.nodes[2].rect = <<1, 1, 1>>],
      [c EXCEPT !.nodes[2].rect = <<1, 1, 1, 1, 1>>],
      [c EXCEPT !.nodes[2].rect = <<NaN, 1, 1, 1>>],
      [c EXCEPT !.nodes[2].rect = <<1, 1, 0, 1>>],
      [c EXCEPT !.nodes[2].rect = <<1, 1, 1, 0>>],
      [c EXCEPT !.nodes[2].rect = <<-1, 1, 9, 1>>],
      [c EXCEPT !.nodes[2].meta = MetaAbsent, !.nodes[2].len = 4],
      [c EXCEPT !.nodes[2].meta = MetaObject({})],
      [c EXCEPT !.nodes[2].meta = MetaNull],
      [c EXCEPT !.nodes[2].meta = MetaArray],
      [c EXCEPT !.nodes[2].meta = MetaFalsy],
      [c EXCEPT !.nodes[2].meta = MetaText] }

CompactInputs ==
    {CompactMixed} \cup
    UNION { {CompactBase(type)} \cup EnvelopeVariants(CompactBase(type))
                \cup NodeVariants(CompactBase(type)) : type \in NodeTypes }

\* the caller holds a SceneDoc, or the compact document of a file
CompactInit ==
    /\ heap = (1 :> NewDoc(CanvasWidthCells, CanvasHeightCells))
    /\ scene = NewScene(1, CanvasWidthCells, CanvasHeightCells)
    /\ held = NoRef
    /\ ed = EdInit
    /\ hist = << >>
    /\ last = Last("new", TRUE, "none", 0, 0)
    /\ \/ \E d \in RoundTripDocs : caller = [NoCaller EXCEPT !.phase = "doc", !.doc = d]
       \/ \E c \in CompactInputs :
            caller = [NoCaller EXCEPT !.phase = "compact", !.compact = c]

\* compact = compactFromSceneDoc(doc)
CompactFromSceneDoc ==
    /\ caller.phase = "doc"
    /\ caller' = [caller EXCEPT !.phase = "saved",
                                !.compact = compactFromSceneDoc(caller.doc)]
    /\ last' = Last("compactFromSceneDoc", TRUE, "none", 0, 0)
    /\ UNCHANGED <<heap, scene, held, ed, hist>>

\* out = sceneDocFromCompact(compact)
SceneDocFromCompact ==
    /\ caller.phase \in {"saved", "compact"}
    /\ LET out == sceneDocFromCompact(caller.compact)
       IN  /\ caller' = [caller EXCEPT
                            !.phase = IF @ = "saved" THEN "reloaded" ELSE "loaded",
                            !.out = out]
           /\ last' = Last("sceneDocFromCompact", out.ok, "none", 0, 0)
    /\ UNCHANGED <<heap, scene, held, ed, hist>>

CompactNext ==
    \/ CompactFromSceneDoc
    \/ SceneDocFromCompact

CompactSpec == CompactInit /\ [][CompactNext]_vars

\* a scene loaded from a compact document, as loadCompactDoc builds it, and then
\* driven through addLayer and through addBox calls that leave the id to the scene
MaxLoadedComponents == 3

LoadedOpts ==
    [layerId : {UNDEFINED} \cup LayerNames,
     rect : InsideRects,
     id : {UNDEFINED},
     meta : {MetaUndefined}]

\* scene = Scene.fromDoc(out.doc) on the document sceneDocFromCompact returned
FromDocOut ==
    /\ caller.phase \in {"loaded", "reloaded"}
    /\ caller.out.ok
    /\ LET arg == FreshRef(heap)
           res == fromDoc(heap @@ (arg :> caller.out.doc), arg)
       IN  /\ Commit(IF res.ok THEN AfterCall(TheWorld, res) ELSE TheWorld, held)
           /\ last' = Last("fromDoc", res.ok, "none", 0, 0)
           /\ caller' = [caller EXCEPT !.phase = IF res.ok THEN "scene" ELSE "rejected"]
           /\ UNCHANGED hist

AddLayerLoaded(name) ==
    /\ caller.phase = "scene"
    /\ AddLayer(name)

AddBoxLoaded(opts) ==
    /\ caller.phase = "scene"
    /\ Len(SceneDoc.components) < MaxLoadedComponents
    /\ Call("addBox", addBox(heap, scene, opts))

LoadedNext ==
    \/ CompactFromSceneDoc
    \/ SceneDocFromCompact
    \/ FromDocOut
    \/ \E name \in LayerNames : AddLayerLoaded(name)
    \/ \E opts \in LoadedOpts : AddBoxLoaded(opts)

LoadedSpec == CompactInit /\ [][LoadedNext]_vars

(***************************************************************************)
(* Claims about the Scene                                                  *)
(***************************************************************************)
InsideCanvas(rect, s) ==
    /\ rect.x >= 0 /\ rect.y >= 0 /\ rect.w >= 1 /\ rect.h >= 1
    /\ rect.x + rect.w <= widthPx(s) /\ rect.y + rect.h <= heightPx(s)

\* C1: a Scene mutation that fails (throws) leaves the document (layers,
\* components, state.nextId), the runtime layer list and activeLayerId as before
C1_FailedMutationChangesNothing ==
    [][last'.ok = FALSE => (heap'[scene'.doc] = heap[scene.doc] /\ scene' = scene)]_vars

\* C2: after successful addLayer, addBox and updateBoxRect calls every
\* component's rect lies inside the canvas with w >= 1 and h >= 1
C2_RectsInsideCanvas ==
    \A i \in DOMAIN SceneDoc.components : InsideCanvas(SceneDoc.components[i].rect, scene)

\* C3: c<state.nextId> is the id of no component, so an addBox call that
\* supplies no id cannot fail with an id collision
C3_NextIdIsFresh ==
    ("c" \o ToString(SceneDoc.state.nextId)) \notin ComponentIds

\* C4: the ids of the components of the document are pairwise distinct
C4_ComponentIdsDistinct == Distinct(Ids(SceneDoc.components))

C4_Witness ==
    /\ Len(SceneDoc.components) = 2
    /\ last.op = "addBox" /\ last.ok
    /\ held # NoRef

\* C5: every component's layerId is the id of a layer declared in the document
C5_LayerIdsResolve ==
    \A i \in DOMAIN SceneDoc.components :
        \E j \in DOMAIN SceneDoc.layers :
            SceneDoc.layers[j].id = SceneDoc.components[i].layerId

C5_Witness ==
    /\ Len(SceneDoc.layers) = 2
    /\ \E i \in DOMAIN SceneDoc.components :
          SceneDoc.components[i].layerId = SceneDoc.layers[1].id
    /\ scene.activeLayerId = SceneDoc.layers[2].id
    /\ last.op = "addBox" /\ last.ok

\* C6: the layer ids of the document are pairwise distinct and each layer's
\* id equals its name
C6_LayerIdsDistinctAndNamed ==
    /\ Distinct(Ids(SceneDoc.layers))
    /\ \A i \in DOMAIN SceneDoc.layers : SceneDoc.layers[i].id = SceneDoc.layers[i].name

C6_Witness ==
    /\ Len(SceneDoc.layers) = 2
    /\ last.op = "addLayer" /\ ~last.ok

\* C10: a document the caller holds (returned by toDoc, or passed to fromDoc)
\* is not the scene's own document and is changed by no later call on the scene
C10_HeldDocNeverChanges ==
    [][(held # NoRef /\ last'.op # "toDoc") =>
            (held' # NoRef /\ held' # scene'.doc /\ heap'[held'] = heap[held])]_vars

C10_Witness ==
    /\ held # NoRef
    /\ last.op = "addBox" /\ last.ok
    /\ Len(heap[held].components) < Len(SceneDoc.components)

(***************************************************************************)
(* Claims about undo in the editor                                         *)
(***************************************************************************)
\* command lines tried in every state of the editor, those of the session and
\* more: selecting a layer, a box that fills the canvas, a box outside it, a
\* missing file, save, help
C7Lines ==
    CommandLines \cup
        { CommandLine("layer", <<Identifier("select"), Identifier("frame")>>, {}),
          AddBoxLine(Rect(0, 0, 80, 32)),
          AddBoxLine(Rect(70, 4, 16, 12)),
          LoadLine("bad"),
          LoadLine("none"),
          CommandLine("w", << >>, {}),
          CommandLine("help", << >>, {}) }

C8_EveryChangeIsSnapshotted ==
    [][(~SameFields(heap'[scene'.doc], SceneDoc) /\ last'.undo # "pop") =>
            /\ last'.undo = "push"
            /\ SameFields(heap'[ed'.undoStack[Len(ed'.undoStack)].doc], SceneDoc)]_vars

\* the entries of the undo stack hold the documents and active layers the scene
\* had before the commands that recorded them, oldest first
StackMatchesHistory ==
    /\ Len(ed.undoStack) = Len(hist)
    /\ \A i \in DOMAIN hist :
          /\ SameFields(heap[ed.undoStack[i].doc], hist[i].doc)
          /\ ed.undoStack[i].activeLayerId = hist[i].activeLayerId

\* C9: undo is last in, first out: an undo restores the document and active
\* layer from before the newest recorded command and leaves the older entries
\* as they were, so k undos in a row go back through the k commands in reverse;
\* undoLastCommand on an empty undo stack changes neither the scene nor the stack
C9_UndoIsLastInFirstOut ==
    [][/\ Len(ed.undoStack) = 0 => undoLastCommand(TheWorld) = Done(TheWorld)
       /\ last'.undo = "pop" =>
            /\ SameFields(heap'[scene'.doc], hist[Len(hist)].doc)
            /\ scene'.activeLayerId = hist[Len(hist)].activeLayerId
            /\ Len(ed'.undoStack) = Len(ed.undoStack) - 1
       /\ StackMatchesHistory']_vars

\* two undos in a row have emptied a stack of two recorded commands and ended
\* at the document from before the first of them
C9_Witness ==
    /\ last.undo = "pop" /\ last.streak = 2
    /\ Len(ed.undoStack) = 0
    /\ SameFields(SceneDoc, EditorScene.heap[1])
    /\ scene.activeLayerId = "components"

(***************************************************************************)
(* Claims about the compact serialization                                  *)
(***************************************************************************)
\* a meta that is an empty object, absent or undefined counts as absent
NormalMeta(meta) == IF NonEmptyObject(meta) THEN meta ELSE MetaAbsent

NormalComponents(components) ==
    [i \in DOMAIN components |-> [components[i] EXCEPT !.meta = NormalMeta(@)]]

\* C11: for a document d that validateSceneDoc accepts,
\* sceneDocFromCompact(compactFromSceneDoc(d)) returns a document equal to d in
\* its layers (id, name, visible), its components (id, type, layerId, rect,
\* meta, an empty meta counting as absent) and its size
C11_RoundTripKeepsDocument ==
    caller.phase = "reloaded" =>
        /\ caller.out.ok
        /\ caller.out.doc.layers = caller.doc.layers
        /\ NormalComponents(caller.out.doc.components) = NormalComponents(caller.doc.components)
        /\ caller.out.doc.size = caller.doc.size

\* C12: after a compact document has been loaded (sceneDocFromCompact, then
\* Scene.fromDoc), no addBox call that supplies no id fails because the id it
\* mints is the id of a component: on a declared layer and with a rect inside
\* the canvas every such call succeeds, whatever addLayer and addBox calls came
\* before
C12_NoCollisionAfterLoad ==
    caller.phase = "scene" =>
        \A opts \in LoadedOpts :
            HasLayerDoc(heap, scene, BoxLayerId(scene, opts)) =>
                addBox(heap, scene, opts).ok

\* the nodes of a compact document that are of the given types, in order
NodesOfTypes(nodes, types) == SelectSeq(nodes, LAMBDA n : n.type \in types)
NodesNotOfTypes(nodes, types) == SelectSeq(nodes, LAMBDA n : n.type \notin types)

ListedDefect(c) ==
    \/ c.v # 1
    \/ ~IsFinite(c.w) \/ ~IsFinite(c.h)
    \/ c.w < 2 \/ c.h < 4
    \/ c.w % 2 # 0 \/ c.h % 4 # 0
    \/ \E i \in DOMAIN c.layers :
          c.layers[i] = "" \/ \E j \in DOMAIN c.layers : j # i /\ c.layers[j] = c.layers[i]
    \/ \E i \in DOMAIN c.nodes :
          \/ c.nodes[i].len \notin {4, 5}
          \/ c.nodes[i].id \in NonStrings \/ c.nodes[i].id = ""
          \/ \E j \in DOMAIN c.nodes : j # i /\ c.nodes[j].id = c.nodes[i].id
          \/ ~\E j \in DOMAIN c.layers : c.layers[j] = c.nodes[i].layerId
          \/ Len(c.nodes[i].rect) # 4
          \/ \E k \in DOMAIN c.nodes[i].rect : ~IsFinite(c.nodes[i].rect[k])
          \/ (Len(c.nodes[i].rect) = 4 /\ (c.nodes[i].rect[3] < 1 \/ c.nodes[i].rect[4] < 1))
          \/ c.nodes[i].meta.tag \notin {"absent", "object"}
    \/ c.meta.tag \notin {"absent", "object"}

\* a layer id or a node type that is no string
UnlistedDefect(c) ==
    \/ \E i \in DOMAIN c.layers : c.layers[i] \in NonStrings
    \/ \E i \in DOMAIN c.nodes : c.nodes[i].type \in NonStrings

LoadMustFail(filename) ==
    \/ filename \notin DOMAIN ed.files
    \/ ~ed.files[filename].exists
    \/ ~ed.files[filename].json
    \/ ~validateCompactDoc(ed.files[filename].value)

\* C15: a load command that fails (unreadable file, invalid JSON, a compact
\* document rejected by validation) leaves the scene's document, its active
\* layer and the undo stack, entries and the documents they hold, as they were
\* before the command
C15_FailedLoadChangesNothing ==
    \A filename \in LoadNames :
        LET ran == line(TheWorld, CommandText(LoadLine(filename))).world
        IN  LoadMustFail(filename) =>
                /\ ran.heap[ran.scene.doc] = SceneDoc
                /\ ran.scene.activeLayerId = scene.activeLayerId
                /\ ran.scene.layers = scene.layers
                /\ ran.ed.undoStack = ed.undoStack
                /\ \A i \in DOMAIN ed.undoStack :
                      ran.heap[ran.ed.undoStack[i].doc] = heap[ed.undoStack[i].doc]

\* a load has just failed in a session that had loaded f (one entry on the undo
\* stack) before
C15_Witness ==
    /\ last.op = "load" /\ last.undo = "none"
    /\ ed.errorMessage # NULL
    /\ Len(ed.undoStack) = 1
    /\ Ids(SceneDoc.layers) = <<"base">>
    /\ Ids(SceneDoc.components) = <<"c2">>

(***************************************************************************)
(* Claims about the methods of the Scene                                   *)
(***************************************************************************)
\* the id addBox gives the component: opts.id, or c<state.nextId>
BoxId(opts) ==
    IF opts.id = UNDEFINED THEN "c" \o ToString(SceneDoc.state.nextId) ELSE opts.id

\* C16: addBox on a declared layer with an id that no component has succeeds
\* if and only if the rect has x >= 0, y >= 0, w >= 1, h >= 1, x + w <= widthPx
\* and y + h <= heightPx (a comparison with a number that is not finite is
\* false); on the 160 x 96 px canvas the rects tried include (8,8,143,79),
\* (8,8,200,10), the whole canvas, w = 0 and rects one pixel beyond each edge
C16_AddBoxSucceedsIffInside ==
    \A opts \in BoundsOpts :
        (HasLayerDoc(heap, scene, BoxLayerId(scene, opts)) /\ BoxId(opts) \notin ComponentIds) =>
            (addBox(heap, scene, opts).ok <=>
                (/\ \A n \in {opts.rect.x, opts.rect.y, opts.rect.w, opts.rect.h} : n # NaN
                 /\ InsideCanvas(opts.rect, scene)))

\* C17: for a rect r with w >= 1 and h >= 1 inside the canvas, after a
\* successful addBox({rect: r}) getComponentById of the returned id yields a
\* component whose rect has the x, y, w and h of r
C17_AddedBoxKeepsRect ==
    \A opts \in BoundsOpts :
        LET res == addBox(heap, scene, opts)
            i == getComponentById(res.heap, res.scene, BoxId(opts))
        IN  (InsideCanvas(opts.rect, scene) /\ res.ok) =>
                /\ i # 0
                /\ res.heap[res.scene.doc].components[i].id = BoxId(opts)
                /\ res.heap[res.scene.doc].components[i].rect = opts.rect

\* addBox has just stored the rect (8, 8, 143, 79) under a minted id
C17_Witness ==
    /\ last.op = "addBox" /\ last.ok
    /\ LET i == getComponentById(heap, scene, "c1")
       IN  i # 0 /\ SceneDoc.components[i].rect = Rect(8, 8, 143, 79)

\* C18: a successful addLayer(name) appends one layer with id = name = the
\* argument and visible = true at the end of the document's layer list and of
\* the runtime layer list, makes it the active layer, and leaves the layers
\* there were, the components and state.nextId unchanged
C18_AddLayerAppendsAndActivates ==
    [][(last'.op = "addLayer" /\ last'.ok) =>
          \E name \in BoundsLayers :
              /\ heap'[scene'.doc].layers =
                    Append(SceneDoc.layers, [id |-> name, name |-> name, visible |-> TRUE])
              /\ Len(scene'.layers) = Len(scene.layers) + 1
              /\ SubSeq(scene'.layers, 1, Len(scene.layers)) = scene.layers
              /\ scene'.layers[Len(scene'.layers)].id = name
              /\ scene'.layers[Len(scene'.layers)].name = name
              /\ scene'.layers[Len(scene'.layers)].visible = TRUE
              /\ scene'.activeLayerId = name
              /\ heap'[scene'.doc].components = SceneDoc.components
              /\ heap'[scene'.doc].state.nextId = SceneDoc.state.nextId
              /\ heap'[scene'.doc].size = SceneDoc.size]_vars

\* addLayer has added a second layer to a scene that holds a component on the
\* first
C18_Witness ==
    /\ last.op = "addLayer" /\ last.ok
    /\ Len(SceneDoc.layers) = 2
    /\ Len(scene.layers) = 2
    /\ scene.activeLayerId = SceneDoc.layers[2].id
    /\ \E i \in DOMAIN SceneDoc.components :
          SceneDoc.components[i].layerId = SceneDoc.layers[1].id

\* C19: with n >= 1 layers and the active layer at index i of the document's
\* layer list (counted from 0), cycleActiveLayer(d) for d = +1 and d = -1 makes
\* the layer at index (i + d) mod n the active one and changes nothing else;
\* with no layers it changes nothing
C19_CycleWrapsAround ==
    \A d \in {1, -1} :
        LET layers == SceneDoc.layers
            n == Len(layers)
            res == cycleActiveLayer(heap, scene, d)
        IN  /\ res.ok
            /\ res.heap = heap
            /\ n = 0 => res.scene = scene
            /\ \A i \in 0..(n - 1) :
                  layers[i + 1].id = scene.activeLayerId =>
                      res.scene = [scene EXCEPT
                                      !.activeLayerId = layers[((i + d + n) % n) + 1].id]

\* cycleActiveLayer has just gone from the last of three layers to the first,
\* or from the second to the first
C19_Witness ==
    /\ last.op = "cycleActiveLayer" /\ last.ok
    /\ Len(SceneDoc.layers) = 3
    /\ scene.activeLayerId = SceneDoc.layers[1].id
    /\ Len(SceneDoc.components) = 1

\* C20: a successful updateBoxRect(id, rect) changes only the rect of the
\* component with that id, to the x, y, w and h of the given rect, and leaves
\* every other component, the layers, state.nextId and the active layer
\* unchanged; the component holds a copy, so a later write of the caller to its
\* rect object changes nothing in the scene
C20_UpdateChangesOnlyThatRect ==
    [][/\ (last'.op = "updateBoxRect" /\ last'.ok) =>
            LET i == getComponentById(heap, scene, caller'.rectId)
            IN  /\ i # 0
                /\ heap'[scene'.doc] = [SceneDoc EXCEPT !.components[i].rect = caller'.rect]
                /\ scene'.layers = scene.layers
                /\ scene'.activeLayerId = scene.activeLayerId
       /\ last'.op = "writeRect" =>
            /\ heap'[scene'.doc] = SceneDoc
            /\ scene' = scene]_vars

\* the caller has written to the rect object it passed for the second of two
\* components, and the component still has the rect of the call
C20_Witness ==
    /\ last.op = "writeRect"
    /\ Len(SceneDoc.components) = 2
    /\ SceneDoc.components[2].id = caller.rectId
    /\ SceneDoc.components[2].rect # caller.rect
    /\ SceneDoc.components[2].rect = Rect(1, 1, 2, 2)
    /\ SceneDoc.components[1].rect = Rect(0, 0, 4, 4)

(***************************************************************************)
(* Claims about removing a component                                       *)
(***************************************************************************)
\* C21: removeComponent(id) with an id no component has does not fail and
\* leaves the document (and the scene) unchanged; calling it a second time
\* with the same id gives what one call gives, for every id
C21_RemoveIsIdempotent ==
    /\ \A id \in RemoveIds :
          LET once == removeComponent(heap, scene, id)
              twice == removeComponent(once.heap, once.scene, id)
          IN  /\ once.ok /\ twice.ok
              /\ twice.heap = once.heap /\ twice.scene = once.scene
              /\ id \notin ComponentIds => (once.heap = heap /\ once.scene = scene)
              /\ getComponentById(once.heap, once.scene, id) = 0
    /\ last.op = "removeAbsent" => last.ok

\* removeComponent has been called with an id no component has on a document
\* that holds two components
C21_Witness ==
    /\ last.op = "removeAbsent"
    /\ last.ok
    /\ Len(SceneDoc.components) = 2

(***************************************************************************)
(* Claims about validateSceneDoc                                           *)
(***************************************************************************)
AtLeastOne(v) == v # NaN /\ Twice(v) >= 2

\* the conditions on a document, one by one
AcceptableDoc(doc) ==
    /\ doc.schemaVersion = 1
    /\ doc.units = "px"
    /\ \A i \in DOMAIN doc.layers : doc.layers[i].id = doc.layers[i].name
    /\ Cardinality(Range(Ids(doc.layers))) = Len(doc.layers)
    /\ Cardinality(Range(Ids(doc.components))) = Len(doc.components)
    /\ \A i \in DOMAIN doc.components :
          LET c == doc.components[i]
          IN  /\ c.type = "box" \/ c.type = "image"
              /\ \E k \in DOMAIN doc.layers : doc.layers[k].id = c.layerId
              /\ NaN \notin {c.rect.x, c.rect.y, c.rect.w, c.rect.h}
              /\ AtLeastOne(c.rect.w) /\ AtLeastOne(c.rect.h)
    /\ AtLeastOne(doc.state.nextId)

\* C22: validateSceneDoc accepts a document exactly when schemaVersion is 1,
\* units is px, every layer's id equals its name, layer ids are distinct,
\* component ids are distinct, every type is box or image, every layerId is
\* a declared layer, every rect has four finite fields with w, h >= 1, and
\* state.nextId is finite and >= 1; it never modifies the document; and
\* Scene.fromDoc builds a scene only for a document validateSceneDoc accepts
C22_ValidateAcceptsExactlyWellFormed ==
    /\ heap[held] = caller.doc
    /\ last.op = "validateSceneDoc" => (last.ok <=> AcceptableDoc(caller.doc))
    /\ (last.op = "fromDoc" /\ last.ok) =>
          /\ AcceptableDoc(caller.doc)
          /\ SceneDoc.components = caller.doc.components
          /\ Ids(scene.layers) = Ids(caller.doc.layers)

\* a scene has been built from a document with a hidden layer, a rect of
\* non-integer and negative coordinates, and a nextId that is no integer
C22_Witness ==
    /\ last.op = "fromDoc"
    /\ last.ok
    /\ Len(caller.doc.layers) = 2
    /\ Len(caller.doc.components) = 1
    /\ caller.doc.components[1].rect = Rect(Half(-1), -3, Half(1), 1)
    /\ caller.doc.state.nextId = Half(1)

(***************************************************************************)
(* Claims about render                                                     *)
(***************************************************************************)
HasColour(frame, text) == \E k \in DOMAIN frame : frame[k] = ColourCode(text)

\* C23: two calls of render() in a row, without an overlay and with no
\* mutation in between, return the same string (or fail alike), whatever
\* came before the first of them
C23_RenderTwiceSameFrame ==
    [][(last'.op = "render" /\ last'.streak = 2) =>
          /\ last.op = "render"
          /\ last'.ok = last.ok
          /\ caller'.frame = caller.frame
          /\ \A again \in {render(heap', scene', NoOverlay)} :
                again.threw = ~last'.ok /\ (last'.ok => again.out = caller'.frame)]_vars

\* render() has run twice in a row on a scene with two visible layers, after
\* a frame that showed an overlay, and the frame has cells in the active colour
C23_Witness ==
    /\ last.op = "render"
    /\ last.streak = 2
    /\ last.ok
    /\ caller.overlay = NoOverlay
    /\ HasColour(caller.frame, colorActive)
    /\ \A i \in DOMAIN scene.layers : scene.layers[i].visible /\ scene.layers[i].buffer # {}

RenderStep == last'.op \in {"render", "renderOverlay"}

\* C24: render, with or without an overlay, leaves the scene document and
\* activeLayerId as they were before the call
C24_RenderKeepsDocumentAndActiveLayer ==
    [][RenderStep =>
          /\ heap'[scene'.doc] = SceneDoc
          /\ scene'.activeLayerId = scene.activeLayerId]_vars

\* the same for the calls of render that return
C24_ReturningRenderKeepsDocumentAndActiveLayer ==
    [][(RenderStep /\ last'.ok) =>
          /\ heap'[scene'.doc] = SceneDoc
          /\ scene'.activeLayerId = scene.activeLayerId]_vars

\* C25: render never fails, on a document validateSceneDoc accepts and with
\* any overlay rect
C25_RenderNeverFails ==
    (last.op \in {"render", "renderOverlay"} /\ validateSceneDoc(SceneDoc)) => last.ok

\* render without an overlay returns when every box on a visible layer has an
\* integer y and h
C25_RenderReturnsOnIntegerRows ==
    (/\ last.op = "render"
     /\ \A i \in DOMAIN SceneDoc.components :
           IsInteger(SceneDoc.components[i].rect.y) /\ IsInteger(SceneDoc.components[i].rect.h))
        => last.ok

Buffers(s) == [i \in DOMAIN s.layers |-> s.layers[i].buffer]

\* C26: the overlay is transient: after render(overlay) every layer's buffer
\* is what render() without an overlay would have left, and a render()
\* without an overlay after it returns what it would have returned had the
\* overlay never been rendered
C26_OverlayIsTransient ==
    [][last'.op = "renderOverlay" =>
          \A plain \in {render(heap, scene, NoOverlay)},
             later \in {render(heap', scene', NoOverlay)} :
              /\ Buffers(scene') = Buffers(plain.scene)
              /\ later.threw = plain.threw
              /\ later.out = plain.out
              /\ Buffers(later.scene) = Buffers(plain.scene)]_vars

\* a frame with a blue overlay has been rendered on a scene whose two layers
\* both hold pixels
C26_Witness ==
    /\ last.op = "renderOverlay"
    /\ last.ok
    /\ HasColour(caller.frame, "ESC[38;5;33m")
    /\ \A i \in DOMAIN scene.layers : scene.layers[i].buffer # {}

\* is the layer with this id declared and visible
VisibleLayer(doc, layerId) ==
    \E k \in DOMAIN doc.layers : doc.layers[k].id = layerId /\ doc.layers[k].visible

\* the heap with the components of invisible layers taken out of the document
WithoutHidden(h, s) ==
    [h EXCEPT ![s.doc].components =
        SelectSeq(@, LAMBDA c : VisibleLayer(h[s.doc], c.layerId))]

\* C27: a layer that is not visible contributes nothing to a frame: the frame
\* is the one the scene without the components of invisible layers gives, and
\* when the active layer is invisible no cell is in the active colour
C27_HiddenLayerContributesNothing ==
    (last.op \in {"render", "renderOverlay"} /\ last.ok) =>
        /\ \A bare \in {render(WithoutHidden(heap, scene), scene, caller.overlay)} :
              ~bare.threw /\ bare.out = caller.frame
        /\ ~VisibleLayer(SceneDoc, scene.activeLayerId) =>
              ~HasColour(caller.frame, colorActive)
        /\ \A i \in DOMAIN scene.layers :
              ~scene.layers[i].visible => scene.layers[i].buffer = {}

\* a frame has been rendered while the active layer was invisible and held a
\* box inside the canvas, and a visible layer held a box too
C27_Witness ==
    /\ last.op = "render"
    /\ last.ok
    /\ scene.activeLayerId = "b"
    /\ ~VisibleLayer(SceneDoc, "b")
    /\ \E i \in DOMAIN SceneDoc.components :
          SceneDoc.components[i].layerId = "b" /\ SceneDoc.components[i].rect = Rect(1, 1, 2, 6)
    /\ \E k \in DOMAIN caller.frame : caller.frame[k].code > 10240

\* a sequence with the elements at i and j exchanged
Exchanged(seq, i, j) ==
    [k \in DOMAIN seq |-> IF k = i THEN seq[j] ELSE IF k = j THEN seq[i] ELSE seq[k]]

VisiblePairs ==
    {p \in (DOMAIN SceneDoc.layers) \X (DOMAIN SceneDoc.layers) :
        p[1] < p[2] /\ SceneDoc.layers[p[1]].visible /\ SceneDoc.layers[p[2]].visible}

\* C28: with two visible layers declared in the other order, and the
\* components, the visibility flags and the active layer as they are, render
\* returns the same string, with and without an overlay
C28_LayerOrderDoesNotShow ==
    \A p \in VisiblePairs, overlay \in {NoOverlay, caller.overlay} :
        \A here \in {render(heap, scene, overlay)},
           there \in {render([heap EXCEPT ![scene.doc].layers = Exchanged(@, p[1], p[2])],
                             [scene EXCEPT !.layers = Exchanged(@, p[1], p[2])], overlay)} :
            /\ there.threw = here.threw
            /\ there.out = here.out
            /\ (last.op = "render" /\ last.ok) => there.out = caller.frame

\* a frame has been rendered in which two visible layers set different bits
\* of the same cell and one of them is active
C28_Witness ==
    /\ last.op = "render"
    /\ last.ok
    /\ VisiblePairs # {}
    /\ HasColour(caller.frame, colorActive)
    /\ ByteAt(scene.layers[1].buffer, 0) # {}
    /\ ByteAt(scene.layers[2].buffer, 0) # {}
    /\ ByteAt(scene.layers[1].buffer, 0) # ByteAt(scene.layers[2].buffer, 0)

\* the characters of a frame, without the colour escapes
Characters(frame) == SelectSeq(frame, LAMBDA part : part.kind = "char")

\* the bits of the visible layers and of the overlay of the last call in a cell
CompositeByte(index) ==
    UNION {ByteAt(scene.layers[i].buffer, index) :
              i \in {q \in DOMAIN scene.layers : scene.layers[q].visible}}
OverlayByte(index) ==
    IF caller.overlay.given
    THEN ByteAt(drawDashedRect(scene.widthCells, scene.heightCells,
                               caller.overlay.rect).pixels, index)
    ELSE {}

\* C29: the string render returns has heightCells rows of widthCells glyphs,
\* each row ending with a line feed; the glyph of a cell is the code point
\* 0x2800 + (composite byte OR overlay byte), between 0x2800 and 0x28FF; and
\* all the rest of the string is ANSI colour escapes
C29_FrameIsRowsOfGlyphs ==
    (last.op \in {"render", "renderOverlay"} /\ last.ok) =>
        \A chars \in {Characters(caller.frame)} :
            /\ Len(chars) = scene.heightCells * (scene.widthCells + 1)
            /\ \A k \in DOMAIN chars :
                  LET row == (k - 1) \div (scene.widthCells + 1)
                      col == (k - 1) % (scene.widthCells + 1)
                      index == row * scene.widthCells + col
                  IN  IF col = scene.widthCells THEN chars[k].code = 10
                      ELSE /\ chars[k].code =
                                10240 + ByteValue(CompositeByte(index) \cup OverlayByte(index))
                           /\ chars[k].code \in 10240..10495
            /\ caller.frame[Len(caller.frame)].code = 10
            /\ \A k \in DOMAIN caller.frame :
                  caller.frame[k].kind # "char" =>
                      /\ caller.frame[k].kind = "escape"
                      /\ caller.frame[k].text \in
                            {colorActive, colorReset,
                             IF caller.overlay.color = UNDEFINED THEN colorGray
                             ELSE caller.overlay.color}

\* a frame has been rendered with the blue overlay over cells that hold bits
\* of the layers, some of them of the active layer
C29_Witness ==
    /\ last.op = "renderOverlay"
    /\ last.ok
    /\ HasColour(caller.frame, "ESC[38;5;33m")
    /\ HasColour(caller.frame, colorActive)
    /\ \E index \in 0..(scene.widthCells * scene.heightCells - 1) :
          /\ OverlayByte(index) # {}
          /\ CompositeByte(index) # {}
          /\ ~(OverlayByte(index) \subseteq CompositeByte(index))

(***************************************************************************)
(* Claims about the pending create-drag action                             *)
(***************************************************************************)
Pending == ed.pendingAction.kind # NULL

\* C30: while a pending create-drag action exists, a mouse down and a mouse
\* move change nothing but the pending action (its start point and preview
\* rect), and Escape discards the pending action and changes nothing else; the
\* document and the undo stack stay as they are.  A key or mouse event changes
\* the document only if it is a mouse up after the drag has started, which
\* ends the pending action and appends one component.
C30_PendingDragCommitsOnlyOnMouseUp ==
    [][Pending =>
          /\ \A ev \in PendingMouseEvents :
                (ev.kind \in {"down", "move"} /\ MouseEventHandled(ev)) =>
                    /\ heap' = heap
                    /\ scene' = scene
                    /\ ed' = [ed EXCEPT !.pendingAction = ed'.pendingAction]
                    /\ ed'.pendingAction =
                          [ed.pendingAction EXCEPT
                              !.startedAt = ed'.pendingAction.startedAt,
                              !.previewRect = ed'.pendingAction.previewRect]
          /\ \A colonMode \in BOOLEAN :
                KeyEvent(Escape, colonMode) =>
                    /\ heap' = heap
                    /\ scene' = scene
                    /\ ed' = [ed EXCEPT !.pendingAction = NoPending]
          /\ (/\ last'.op \in {"mouse", "key"}
              /\ heap'[scene'.doc] # SceneDoc \/ ed'.undoStack # ed.undoStack) =>
                    /\ ed.pendingAction.startedAt.set
                    /\ \E ev \in PendingMouseEvents : ev.kind = "up" /\ MouseEventHandled(ev)
                    /\ ed'.pendingAction = NoPending
                    /\ Len(heap'[scene'.doc].components) = Len(SceneDoc.components) + 1
                    /\ SubSeq(heap'[scene'.doc].components, 1, Len(SceneDoc.components))
                          = SceneDoc.components
                    /\ Len(ed'.undoStack) = Len(ed.undoStack) + 1]_vars

\* a drag has been started and moved under a pending action, and the document
\* and the undo stack are still those of the start of the session
C30_Witness ==
    /\ last.op = "mouse"
    /\ ed.pendingAction.kind = "createBoxDrag"
    /\ ed.pendingAction.startedAt.set
    /\ ed.pendingAction.previewRect.set
    /\ ed.pendingAction.previewRect.rect.w > 1
    /\ SceneDoc = EditorScene.heap[EditorScene.scene.doc]
    /\ ed.undoStack = << >>

(***************************************************************************)
(* Claims about the colours of a frame                                     *)
(***************************************************************************)
\* the colour of the overlay of the last call
OverlayColour == IF caller.overlay.color = UNDEFINED THEN colorGray ELSE caller.overlay.color

\* the bits the overlay of the last call sets
OverlayPixels ==
    IF caller.overlay.given
    THEN drawDashedRect(scene.widthCells, scene.heightCells, caller.overlay.rect).pixels
    ELSE {}

\* is the cell marked in the active mask
ActiveCell(index) ==
    \E i \in DOMAIN scene.layers :
        /\ scene.layers[i].id = scene.activeLayerId
        /\ scene.layers[i].visible
        /\ ByteAt(scene.layers[i].buffer, index) # {}

\* the classification of a cell, given the bits of the overlay
CellClass(overlayPixels, index) ==
    IF ByteAt(overlayPixels, index) # {} THEN "overlay"
    ELSE IF ActiveCell(index) THEN "active" ELSE "neutral"

\* the colour a cell of a classification is shown in, "" for none
ClassColour(class) ==
    CASE class = "overlay" -> OverlayColour
      [] class = "active" -> colorActive
      [] OTHER -> ""

IsGlyph(part) == part.kind = "char" /\ part.code # 10

\* the cell whose glyph stands at position k of a frame
CellAt(frame, k) == Cardinality({j \in 1..(k - 1) : IsGlyph(frame[j])})

\* the colour in effect at position k of a frame: that of the last escape
\* before it, "" after a reset and at the start
ColourAt(frame, k) ==
    LET escapes == {j \in 1..(k - 1) : frame[j].kind = "escape"}
        latest == CHOOSE j \in escapes : \A q \in escapes : q <= j
    IN  IF escapes = {} THEN ""
        ELSE IF frame[latest].text = colorReset THEN "" ELSE frame[latest].text

Rendered == last.op \in {"render", "renderOverlay"} /\ last.ok

\* C32: every glyph of a frame stands under the colour of its own cell: the
\* overlay colour where the overlay byte is not zero, else the active colour
\* where the active mask is set, else no colour; one colour is in effect at a
\* time
C32_GlyphUnderColourOfItsCell ==
    Rendered =>
        \A overlayPixels \in {OverlayPixels} :
            \A k \in DOMAIN caller.frame :
                IsGlyph(caller.frame[k]) =>
                    ColourAt(caller.frame, k)
                        = ClassColour(CellClass(overlayPixels, CellAt(caller.frame, k)))

\* a frame holds a glyph under the overlay colour, one under the active colour
\* and one under no colour
C32_Witness ==
    /\ Rendered
    /\ \A colour \in {OverlayColour, colorActive, ""} :
          \E k \in DOMAIN caller.frame :
              IsGlyph(caller.frame[k]) /\ ColourAt(caller.frame, k) = colour

\* the number of escapes written directly before the glyph at position k
EscapesBefore(frame, k) ==
    Cardinality({j \in 1..(k - 1) :
                    \A q \in j..(k - 1) : frame[q].kind = "escape"})

\* the classification of the cell before a cell in its row; a row starts neutral
ClassBefore(overlayPixels, index) ==
    IF index % scene.widthCells = 0 THEN "neutral"
    ELSE CellClass(overlayPixels, index - 1)

\* C33: within a row exactly one escape is written before a cell whose
\* classification differs from that of the cell before it (a row starts
\* neutral), and none before a cell whose classification is the same
C33_OneEscapePerTransition ==
    Rendered =>
        \A overlayPixels \in {OverlayPixels} :
            \A k \in DOMAIN caller.frame :
                IsGlyph(caller.frame[k]) =>
                    \A index \in {CellAt(caller.frame, k)} :
                        EscapesBefore(caller.frame, k)
                            = IF CellClass(overlayPixels, index)
                                    # ClassBefore(overlayPixels, index)
                              THEN 1 ELSE 0

\* what the loop writes: a reset and the active colour before an active cell
\* that follows an overlay cell, one escape before any other change, none
\* where nothing changes
C33_TwoEscapesFromOverlayToActive ==
    Rendered =>
        \A overlayPixels \in {OverlayPixels} :
            \A k \in DOMAIN caller.frame :
                IsGlyph(caller.frame[k]) =>
                    \A index \in {CellAt(caller.frame, k)} :
                        \A now \in {CellClass(overlayPixels, index)},
                           before \in {ClassBefore(overlayPixels, index)} :
                            EscapesBefore(caller.frame, k)
                                = CASE now = before -> 0
                                    [] now = "active" /\ before = "overlay" -> 2
                                    [] OTHER -> 1

\* an active cell follows an overlay cell in a row of the frame
C33_Witness ==
    /\ Rendered
    /\ \E index \in 0..(scene.widthCells * scene.heightCells - 1) :
          /\ CellClass(OverlayPixels, index) = "active"
          /\ ClassBefore(OverlayPixels, index) = "overlay"

\* the positions of the line feeds of a frame
LineFeeds(frame) == {k \in DOMAIN frame : frame[k] = LineFeed}

\* the last cell of the row that the line feed at position k ends
LastCellOfRow(frame, k) == CellAt(frame, k) - 1

\* C34: no colour survives the end of a row: a reset stands before the line
\* feed exactly when the last cell of the row is overlay or active, no colour
\* is in effect at a line feed, and the first cell of every row is written
\* as after a neutral cell
C34_NoColourAcrossRows ==
    Rendered =>
        \A overlayPixels \in {OverlayPixels} :
            /\ \A k \in LineFeeds(caller.frame) :
                  /\ ColourAt(caller.frame, k) = ""
                  /\ (k > 1 /\ caller.frame[k - 1] = ColourCode(colorReset))
                        <=> CellClass(overlayPixels, LastCellOfRow(caller.frame, k)) # "neutral"
            /\ \A k \in DOMAIN caller.frame :
                  (IsGlyph(caller.frame[k]) /\ CellAt(caller.frame, k) % scene.widthCells = 0)
                      => EscapesBefore(caller.frame, k)
                            = IF CellClass(overlayPixels, CellAt(caller.frame, k)) = "neutral"
                              THEN 0 ELSE 1

\* a row ends with a cell in colour and the next row starts with a neutral cell
C34_Witness ==
    /\ Rendered
    /\ \E k \in LineFeeds(caller.frame) :
          /\ CellClass(OverlayPixels, LastCellOfRow(caller.frame, k)) # "neutral"
          /\ k < Len(caller.frame)
          /\ CellClass(OverlayPixels, CellAt(caller.frame, k)) = "neutral"

(***************************************************************************)
(* Claims about setPixel and drawBox                                       *)
(***************************************************************************)
\* the bits of the dot table
DotBits == {BRAILLE_DOTS[row][col] : row \in 1..4, col \in 1..2}

\* C35: setPixel(x, y) with integers x, y inside the canvas ORs into byte
\* floor(y / 4) * widthCells + floor(x / 2) of the active layer's buffer the
\* one bit the dot table has at (y mod 4, x mod 2) and changes no other byte
\* of any layer; the eight sub-pixels of a cell have eight different single
\* bits; a pixel whose cell lies outside the canvas changes nothing
C35_SetPixelSetsOneBit ==
    [][(last'.op = "setPixel" /\ FindIndex(scene.layers, scene.activeLayerId) # 0) =>
          LET x == caller'.rect.x
              y == caller'.rect.y
              i == FindIndex(scene.layers, scene.activeLayerId)
              cells == 0..(scene.widthCells * scene.heightCells - 1)
          IN  /\ (x \in 0..(scene.widthCells * 2 - 1) /\ y \in 0..(scene.heightCells * 4 - 1)) =>
                    LET index == (y \div 4) * scene.widthCells + (x \div 2)
                        bit == BRAILLE_DOTS[(y % 4) + 1][(x % 2) + 1]
                    IN  /\ last'.ok
                        /\ ByteAt(scene'.layers[i].buffer, index)
                              = ByteAt(scene.layers[i].buffer, index) \cup {bit}
                        /\ ByteValue(ByteAt(scene'.layers[i].buffer, index)) \in 1..255
                        /\ \A other \in cells \ {index} :
                              ByteAt(scene'.layers[i].buffer, other)
                                  = ByteAt(scene.layers[i].buffer, other)
                        /\ \A k \in DOMAIN scene'.layers :
                              /\ k # i => scene'.layers[k] = scene.layers[k]
                              /\ \A pair \in scene'.layers[k].buffer : pair[1] \in cells
                        /\ [scene' EXCEPT !.layers = << >>] = [scene EXCEPT !.layers = << >>]
              /\ (/\ IsInteger(x) /\ IsInteger(y)
                  /\ (x < 0 \/ y < 0 \/ x >= scene.widthCells * 2 \/ y >= scene.heightCells * 4))
                    => (scene' = scene /\ last'.ok)
              /\ DotBits = {1, 2, 4, 8, 16, 32, 64, 128}
              /\ Cardinality(DotBits) = 8]_vars

\* setPixel has set a second bit in a byte that was not zero
C35_Witness ==
    /\ last.op = "setPixel"
    /\ last.ok
    /\ \E i \in DOMAIN scene.layers :
          /\ scene.layers[i].id = scene.activeLayerId
          /\ \E index \in 0..(scene.widthCells * scene.heightCells - 1) :
                Cardinality(ByteAt(scene.layers[i].buffer, index)) >= 2

\* the sub-pixels on the four edges of a rect, and those inside the edges
Perimeter(rect) ==
    {<<px, py>> \in (rect.x..(rect.x + rect.w - 1)) \X (rect.y..(rect.y + rect.h - 1)) :
        \/ px = rect.x \/ px = rect.x + rect.w - 1
        \/ py = rect.y \/ py = rect.y + rect.h - 1}

Interior(rect) ==
    ((rect.x..(rect.x + rect.w - 1)) \X (rect.y..(rect.y + rect.h - 1))) \ Perimeter(rect)

\* the byte and the bit of a sub-pixel of the canvas
BitOf(pixel) ==
    <<(pixel[2] \div 4) * scene.widthCells + (pixel[1] \div 2),
      BRAILLE_DOTS[(pixel[2] % 4) + 1][(pixel[1] % 2) + 1]>>

\* the sub-pixels set in a buffer
PixelsSet(buffer) ==
    {pixel \in (0..(scene.widthCells * 2 - 1)) \X (0..(scene.heightCells * 4 - 1)) :
        BitOf(pixel) \in buffer}

\* a rect of integers that lies inside the canvas
IntegerRectInside(rect) ==
    /\ \A v \in {rect.x, rect.y, rect.w, rect.h} : IsInteger(v)
    /\ rect.x >= 0 /\ rect.y >= 0 /\ rect.w >= 1 /\ rect.h >= 1
    /\ rect.x + rect.w <= scene.widthCells * 2
    /\ rect.y + rect.h <= scene.heightCells * 4

\* the rects of the boxes of a layer
BoxRects(layer) ==
    {c.rect : c \in {d \in Range(SceneDoc.components) : d.type = "box" /\ d.layerId = layer.id}}

\* C36: after render, the sub-pixels set in the buffer of a visible layer
\* whose boxes have rects inside the canvas are exactly those on the
\* perimeters of these rects: a sub-pixel inside a box is set only where it
\* lies on the perimeter of another box of the layer
C36_BufferIsUnionOfPerimeters ==
    Rendered =>
        \A i \in DOMAIN scene.layers :
            \A rects \in {BoxRects(scene.layers[i])} :
                (/\ scene.layers[i].visible
                 /\ FindIndex(scene.layers, scene.layers[i].id) = i
                 /\ \A rect \in rects : IntegerRectInside(rect))
                    => /\ scene.layers[i].buffer
                            = {BitOf(pixel) : pixel \in UNION {Perimeter(rect) : rect \in rects}}
                       /\ \A rect \in rects :
                              \A pixel \in Interior(rect) \cap PixelsSet(scene.layers[i].buffer) :
                                  \E other \in rects \ {rect} : pixel \in Perimeter(other)

\* a rendered layer holds a box inside another box: a sub-pixel inside the
\* outer box is set, another is not
C36_Witness ==
    /\ Rendered
    /\ \E i \in DOMAIN scene.layers :
          /\ scene.layers[i].visible
          /\ \A rect \in BoxRects(scene.layers[i]) : IntegerRectInside(rect)
          /\ \E rect \in BoxRects(scene.layers[i]) :
                /\ Interior(rect) \cap PixelsSet(scene.layers[i].buffer) # {}
                /\ Interior(rect) \ PixelsSet(scene.layers[i].buffer) # {}

(***************************************************************************)
(* Claims about drags, the delete shortcut and locked components           *)
(***************************************************************************)
\* the step of the mouse listener, and the step of the 'x' shortcut that
\* removed a component (the only key that records an undo entry)
MouseStep == last'.op = "mouse"
DeleteStep == last'.op = "key" /\ last'.undo = "push"

\* the locked components of the document
LockedComponents == {c \in Range(SceneDoc.components) : Locked(c.meta)}

\* C31: no mouse drag and no 'x' shortcut changes the rect of, or removes, a
\* component that is locked when the event is handled
C31_LockedComponentIsNotEdited ==
    [][(MouseStep \/ DeleteStep) =>
          \A c \in LockedComponents :
              \E d \in Range(heap'[scene'.doc].components) :
                  d.id = c.id /\ d.rect = c.rect]_vars

\* the mouse listener starts no drag on a locked component
C31_NoDragStartsOnLocked ==
    [][(MouseStep /\ ed'.drag.kind # NULL /\ ed.drag.kind = NULL) =>
          \A c \in LockedComponents : c.id # ed'.drag.componentId]_vars

\* a mouse event leaves every locked component as it is unless a drag is in
\* progress when it arrives
C31_MouseKeepsLockedWithoutDrag ==
    [][(MouseStep /\ ed.drag.kind = NULL) =>
          \A c \in LockedComponents : c \in Range(heap'[scene'.doc].components)]_vars

\* C37: whenever a drag is in progress, so at every mouse move that is
\* handled during a drag, the id recorded in the drag names a component of
\* the document
C37_DraggedComponentExists ==
    (ed.drag.kind # NULL /\ ~ed.exited) => HasComponent(heap, scene, ed.drag.componentId)

\* the mouse listener never fails
C37_MouseListenerReturns ==
    [][MouseStep => last'.ok]_vars

\* a key that restores an earlier document ends the drag
C37_UndoEndsDrag ==
    [][(last'.op = "key" /\ last'.undo = "pop") => ed'.drag.kind = NULL]_vars

\* the components a step has given another rect
Rewritten ==
    {i \in DOMAIN SceneDoc.components :
        /\ i \in DOMAIN heap'[scene'.doc].components
        /\ heap'[scene'.doc].components[i].rect # SceneDoc.components[i].rect}

\* C39: when the rect of a component lay inside the canvas at the start of a
\* drag, every rect a mouse move of the drag writes lies inside the canvas
\* and has w >= 1 and h >= 1, and a move drag writes the w and h the rect had
C39_DragKeepsRectInsideCanvas ==
    [][(MouseStep /\ ed.drag.kind # NULL /\ InsideCanvas(ed.drag.startRect, scene)) =>
          \A i \in Rewritten :
              \A rect \in {heap'[scene'.doc].components[i].rect} :
                  /\ SceneDoc.components[i].id = ed.drag.componentId
                  /\ InsideCanvas(rect, scene')
                  /\ ed.drag.kind = "move" =>
                        (rect.w = ed.drag.startRect.w /\ rect.h = ed.drag.startRect.h)]_vars

\* a move drag has been stopped by the right and the lower border, after a
\* resize drag that was stopped by the left or the upper border
C39_Witness ==
    /\ last.op = "mouse"
    /\ ed.drag.kind = "move"
    /\ \E c \in Range(SceneDoc.components) :
          /\ c.id = ed.drag.componentId
          /\ c.rect # ed.drag.startRect
          /\ c.rect.x + c.rect.w = widthPx(scene)
          /\ c.rect.y + c.rect.h = heightPx(scene)
          /\ ed.drag.startRect.x + ed.drag.startRect.w < widthPx(scene)
          /\ ed.drag.startRect.x = 0 \/ ed.drag.startRect.y = 0

(***************************************************************************)
(* Claims about the layer of a box drawn with the mouse                    *)
(***************************************************************************)
\* a mouse up that ends a pending create-drag by appending a component
CreateDragCompletes ==
    /\ MouseStep
    /\ ed.pendingAction.kind # NULL
    /\ ed'.pendingAction.kind = NULL
    /\ Len(heap'[scene'.doc].components) = Len(SceneDoc.components) + 1

\* the component a step has appended
Created == heap'[scene'.doc].components[Len(heap'[scene'.doc].components)]

\* C38: the component created when a pending create-drag completes belongs
\* to the layer recorded in the pending action when it was started, whatever
\* keys were pressed in between
C38_CreatedInRecordedLayer ==
    [][CreateDragCompletes => Created.layerId = ed.pendingAction.layerId]_vars

\* the component is created in the layer that is active at the mouse up
C38_CreatedInActiveLayer ==
    [][CreateDragCompletes => Created.layerId = scene.activeLayerId]_vars

\* the layer recorded in a pending action is the layer that was active when
\* `:add box` was entered, and no key or mouse event changes the record
C38_RecordedLayerIsKept ==
    [][/\ (last'.op = "line" /\ ed'.pendingAction.kind # NULL)
            => ed'.pendingAction.layerId = scene.activeLayerId
       /\ (last'.op # "line" /\ ed'.pendingAction.kind # NULL)
            => ed'.pendingAction.layerId = ed.pendingAction.layerId]_vars

(***************************************************************************)
(* Claims about the mouse decoder                                          *)
(***************************************************************************)
\* the whole stream has been delivered
Delivered == last.op = "data" /\ caller.delivered = Len(caller.stream)

\* the decoder after the whole stream in one chunk
InOneChunk == handleData(NewDecoder, caller.stream)

\* C40: the decoder does not depend on how the stream is cut into chunks: when
\* the whole stream has been delivered, the mouse events emitted and the
\* characters forwarded are those of the stream delivered as one chunk, so
\* a mouse sequence cut anywhere, inside its "\x1b[<" too, is emitted as one
\* event and none of its characters is forwarded
C40_DecoderIgnoresChunking ==
    Delivered =>
        \A whole \in {InOneChunk} :
            /\ caller.decoder.emitted = whole.emitted
            /\ caller.decoder.forwarded = whole.forwarded

\* the same for streams of which no chunk has ended inside a "\x1b[<"
C40_DecoderIgnoresCutsOutsidePrefix ==
    (Delivered /\ ~caller.cutInPrefix) =>
        \A whole \in {InOneChunk} : caller.decoder = whole

\* a chunk that ends inside the "\x1b[<" of a sequence makes the decoder
\* forward the characters of the sequence and emit no event for it
C40_CutInPrefixIsForwarded ==
    (/\ Delivered
     /\ caller.stream \in MousePieces
     /\ caller.cutInPrefix
     /\ InOneChunk.emitted # << >>)
        => /\ caller.decoder.emitted = << >>
           /\ caller.decoder.forwarded = caller.stream
====
